---- MODULE Spec2Model ----
(***************************************************************************)
(* The hypothesis-testing engine of the insurance risk pipeline:           *)
(* scripts/run_hypothesis_tests.py (main, run_tests,                       *)
(* write_markdown_summary), src/hypothesis_testing/segmentation.py         *)
(* (ab_segment, ensure_balance, flag_imbalances),                          *)
(* src/hypothesis_testing/statistical_tests.py (run_test and the three     *)
(* tests it dispatches to), src/hypothesis_testing/metrics.py (the four    *)
(* KPI functions) and src/data_processing/data_cleaning.py                 *)
(* (DataCleaner.clean_data).                                               *)
(*                                                                         *)
(* A DataFrame is a record [columns, rows]; a row is [idx, v] where idx is *)
(* the pandas index label and v maps each column to the cell.  Boolean     *)
(* masks, .copy() and len() act on the sequence of rows.  Probabilities    *)
(* are integers in thousandths (0.05 is 50).  A cell of TotalPremium or    *)
(* TotalClaims is the amount in hundredths (10 is 0.10, 200 is 2.00); the  *)
(* column holds the float64 nearest to that amount, and arithmetic on the  *)
(* two columns is float64 arithmetic.  The results of the scipy            *)
(* routines are not computed by this repository: each call that reaches    *)
(* scipy takes its (statistic, p_value) from ScipyOut.                     *)
(***************************************************************************)
EXTENDS Integers, Sequences, FiniteSets, TLC

VARIABLES
    df,       \* the record set read by pd.read_csv (run_tests), or the harness input
    tests,    \* cfg["tests"]: the ordered list of test specifications (dicts)
    alpha,    \* cfg["alpha"], in thousandths
    pc,       \* control point of main / run_tests, or of a direct call
    i,        \* position of the for-loop of run_tests in tests (1-based)
    df_a,     \* group A of the test being processed
    df_b,     \* group B of the test being processed
    results,  \* run_tests' result list
    log,      \* the log lines of run_tests and of its ensure_balance calls, in order
    summary,  \* the report file: whether written, and its table rows
    ret       \* what the last direct call returned or raised

vars == <<df, tests, alpha, pc, i, df_a, df_b, results, log, summary, ret>>

(***************************************************************************)
(* Bounds of the model and constants of the program.                       *)
(***************************************************************************)
\* longest list of test specifications in a configuration
MaxSpecs == 2
\* longest record set handed to ab_segment in a direct call
MaxRows == 3
\* statistical_tests.py: len(df_a) < 30 or len(df_b) < 30
MinSample == 30
\* float('nan'); every comparison with it is false
NaN == -1
\* run_tests: flag_imbalances(balance_df, threshold=0.05)
BalanceThreshold == 50
\* segmentation.py: def flag_imbalances(balance_df, threshold=0.05)
DefaultThreshold == 50
\* longest balance report handed to flag_imbalances in a direct call
MaxReport == 3
\* longest covariate list handed to ensure_balance in a direct call
MaxCovs == 2

\* no summary file yet / the file with its table rows
NotWritten == [written |-> FALSE, rows |-> <<>>]
\* df_a, df_b before ab_segment has assigned them
NoFrame == [columns |-> {}, rows |-> <<>>]
NoRet == [kind |-> "none"]

Min(a, b) == IF a < b THEN a ELSE b

\* x < y on floats: false as soon as one side is NaN
Lt(x, y) == x # NaN /\ y # NaN /\ x < y

(***************************************************************************)
(* Record sets.                                                            *)
(***************************************************************************)
AllColumns == {"Gender", "Age", "TotalClaims", "TotalPremium"}
NumericColumns == {"Age", "TotalClaims", "TotalPremium"}

Frame(cols, rows) == [columns |-> cols, rows |-> rows]
Len_(frame) == Len(frame.rows)
Empty(frame) == Len(frame.rows) = 0
Indexes(frame) == {frame.rows[k].idx : k \in 1..Len(frame.rows)}

\* the cell of column c in the k-th generated row, whose Gender is g
Cell(c, k, g, claimsEvery, zeroPremiumEvery) ==
    CASE c = "Gender" -> g
      [] c = "Age" -> 20 + (k % 7)
      [] c = "TotalClaims" ->
            IF claimsEvery > 0 /\ k % claimsEvery = 0 THEN 100 + k ELSE 0
      [] c = "TotalPremium" ->
            IF zeroPremiumEvery > 0 /\ k % zeroPremiumEvery = 0
            THEN (IF k % (2 * zeroPremiumEvery) = 0 THEN -50 ELSE 0)
            ELSE 200

\* Gender of the k-th row of a record set with nM "M" rows and nF "F" rows:
\* the two values alternate while both last
GenderOf(k, nM, nF) ==
    IF k <= 2 * Min(nM, nF)
    THEN (IF k % 2 = 1 THEN "M" ELSE "F")
    ELSE (IF nM > nF THEN "M" ELSE "F")

MakeDf(nM, nF, cols, claimsEvery, zeroPremiumEvery) ==
    Frame(cols,
          [k \in 1..(nM + nF) |->
              [idx |-> k - 1,
               v |-> [c \in cols |->
                        Cell(c, k, GenderOf(k, nM, nF), claimsEvery, zeroPremiumEvery)]]])

(***************************************************************************)
(* segmentation.py: ab_segment                                             *)
(***************************************************************************)
\* the selection with its mask dropped: df.copy()
Select_NoMask(frame, feature, value) == frame

\* df[df[feature] == value].copy()
Select(frame, feature, value) ==
    Frame(frame.columns, SelectSeq(frame.rows, LAMBDA r : r.v[feature] = value))

\* ab_segment without its column check: a missing feature selects every row
ab_segment_NoColumnCheck(frame, feature, group_a, group_b) ==
    IF feature \notin frame.columns
    THEN IF Empty(frame)
         THEN [raised |-> "ValueError"]
         ELSE [raised |-> "none", df_a |-> frame, df_b |-> frame]
    ELSE LET a == Select(frame, feature, group_a)
             b == Select(frame, feature, group_b)
         IN  IF Empty(a) \/ Empty(b)
             THEN [raised |-> "ValueError"]
             ELSE [raised |-> "none", df_a |-> a, df_b |-> b]

\* ab_segment raising ValueError for a missing feature
ab_segment_WrongError(frame, feature, group_a, group_b) ==
    IF feature \notin frame.columns
    THEN [raised |-> "ValueError"]
    ELSE LET a == Select(frame, feature, group_a)
             b == Select(frame, feature, group_b)
         IN  IF Empty(a) \/ Empty(b)
             THEN [raised |-> "ValueError"]
             ELSE [raised |-> "none", df_a |-> a, df_b |-> b]

\* ab_segment raising only when both groups are empty
ab_segment_BothEmpty(frame, feature, group_a, group_b) ==
    IF feature \notin frame.columns
    THEN [raised |-> "KeyError"]
    ELSE LET a == Select(frame, feature, group_a)
             b == Select(frame, feature, group_b)
         IN  IF Empty(a) /\ Empty(b)
             THEN [raised |-> "ValueError"]
             ELSE [raised |-> "none", df_a |-> a, df_b |-> b]

\* ab_segment without its emptiness check
ab_segment_NoEmptyCheck(frame, feature, group_a, group_b) ==
    IF feature \notin frame.columns
    THEN [raised |-> "KeyError"]
    ELSE [raised |-> "none",
          df_a |-> Select(frame, feature, group_a),
          df_b |-> Select(frame, feature, group_b)]

ab_segment(frame, feature, group_a, group_b) ==
    IF feature \notin frame.columns
    THEN [raised |-> "KeyError"]
    ELSE LET a == Select(frame, feature, group_a)
             b == Select(frame, feature, group_b)
         IN  IF Empty(a) \/ Empty(b)
             THEN [raised |-> "ValueError"]
             ELSE [raised |-> "none", df_a |-> a, df_b |-> b]

(***************************************************************************)
(* statistical_tests.py                                                    *)
(***************************************************************************)
\* what a scipy routine can hand back: (statistic, p_value) in thousandths,
\* with a p-value below, at and above the configured alpha; the last one is the
\* NaN pair ttest_ind gives on degenerate samples
ScipyOut ==
    { [statistic |-> 4200, p_value |-> 49],
      [statistic |-> 1960, p_value |-> 50],
      [statistic |-> 500,  p_value |-> 600],
      [statistic |-> NaN,  p_value |-> NaN] }

\* only ttest_ind returns NaN without raising
OracleFits(fn, sp) == sp.p_value = NaN => fn = "ttest_ind"

\* return float('nan'), float('nan'), with the message logged on the way
NanPair(why, fn) ==
    [statistic |-> NaN, p_value |-> NaN, why |-> why, scipy |-> fn]

Computed(sp, fn) ==
    [statistic |-> sp.statistic, p_value |-> sp.p_value, why |-> "ok", scipy |-> fn]

\* the result of a test with the two samples that were handed to scipy
Sampled(out, data_a, data_b) ==
    [k \in DOMAIN out \cup {"data_a", "data_b"} |->
        IF k = "data_a" THEN data_a ELSE IF k = "data_b" THEN data_b ELSE out[k]]

Column(frame, c) == [k \in 1..Len(frame.rows) |-> frame.rows[k].v[c]]

\* one division x / y of two cells, kept as the pair it divides
Ratio(x, y) == [num |-> x, den |-> y]

\* df['TotalClaims'] / df['TotalPremium'], row by row
LossRatioData(frame) ==
    [k \in 1..Len(frame.rows) |->
        Ratio(frame.rows[k].v["TotalClaims"], frame.rows[k].v["TotalPremium"])]

(***************************************************************************)
(* float64, the dtype of the two money columns.  A float is the record     *)
(* [neg, m, e] standing for (-1)^neg * m * 2^e, with m a natural number    *)
(* written as its bits, most significant first: m is odd and of at most    *)
(* Mantissa bits, and zero is [FALSE, <<>>, 0].  The amounts of the        *)
(* program are far from the exponent range, so no overflow, subnormal or   *)
(* infinity arises.                                                        *)
(***************************************************************************)
\* significant bits of a float64
Mantissa == 53

\* the bits of a natural number, most significant first
RECURSIVE BitsOf(_)
BitsOf(n) == IF n = 0 THEN <<>> ELSE Append(BitsOf(n \div 2), n % 2)

\* without its leading zero bits
StripLeading(b) ==
    IF \A k \in 1..Len(b) : b[k] = 0
    THEN <<>>
    ELSE SubSeq(b, CHOOSE k \in 1..Len(b) : b[k] = 1 /\ \A j \in 1..(k - 1) : b[j] = 0,
                Len(b))

\* b * 2^k
ShiftLeft(b, k) == IF b = <<>> THEN b ELSE b \o [j \in 1..k |-> 0]

\* the bit of weight 2^j
Bit(b, j) == IF j < Len(b) THEN b[Len(b) - j] ELSE 0

\* a + b carries into the bit of weight 2^j
Carry(a, b, j) ==
    \E g \in 0..(j - 1) :
        /\ Bit(a, g) = 1
        /\ Bit(b, g) = 1
        /\ \A k \in (g + 1)..(j - 1) : Bit(a, k) + Bit(b, k) >= 1

\* a + b
BitsAdd(a, b) ==
    LET n == 1 + (IF Len(a) < Len(b) THEN Len(b) ELSE Len(a))
    IN  StripLeading(<<>> \o [p \in 1..n |->
            (Bit(a, n - p) + Bit(b, n - p) + (IF Carry(a, b, n - p) THEN 1 ELSE 0)) % 2])

\* a - b borrows from the bit of weight 2^j
Borrow(a, b, j) ==
    \E g \in 0..(j - 1) :
        /\ Bit(a, g) < Bit(b, g)
        /\ \A k \in (g + 1)..(j - 1) : Bit(a, k) = Bit(b, k)

\* a - b, for a >= b
BitsSub(a, b) ==
    LET n == Len(a)
    IN  StripLeading(<<>> \o [p \in 1..n |->
            (2 + Bit(a, n - p) - Bit(b, n - p) - (IF Borrow(a, b, n - p) THEN 1 ELSE 0)) % 2])

\* a < b
BitsLess(a, b) ==
    \/ Len(a) < Len(b)
    \/ /\ Len(a) = Len(b)
       /\ \E k \in 1..Len(a) : a[k] < b[k] /\ \A j \in 1..(k - 1) : a[j] = b[j]

\* (r * 2^Len(b) + b) divided by d: the quotient, of Len(b) bits, and the
\* remainder
RECURSIVE LongDivide(_, _, _)
LongDivide(b, d, r) ==
    IF b = <<>>
    THEN [q |-> <<>>, r |-> r]
    ELSE IF Len(b) = 1
    THEN [q |-> <<(2 * r + b[1]) \div d>>, r |-> (2 * r + b[1]) % d]
    ELSE LET h  == Len(b) \div 2
             hi == LongDivide(SubSeq(b, 1, h), d, r)
             lo == LongDivide(SubSeq(b, h + 1, Len(b)), d, hi.r)
         IN  [q |-> hi.q \o lo.q, r |-> lo.r]

\* 0.0
Zero == [neg |-> FALSE, m |-> <<>>, e |-> 0]

\* (-1)^neg * m * 2^e with m odd
Dyadic(neg, m, e) ==
    IF \A k \in 1..Len(m) : m[k] = 0
    THEN Zero
    ELSE LET last == CHOOSE k \in 1..Len(m) :
                         m[k] = 1 /\ \A j \in (k + 1)..Len(m) : m[j] = 0
         IN  [neg |-> neg, m |-> StripLeading(SubSeq(m, 1, last)), e |-> e + Len(m) - last]

\* the float64 nearest to (-1)^neg * (m + s) * 2^e, where 0 < s < 1 if sticky
\* and s = 0 otherwise; a tie goes to the even mantissa
RoundNearestEven(neg, m, e, sticky) ==
    IF Len(m) <= Mantissa
    THEN Dyadic(neg, m, e)
    ELSE LET head == SubSeq(m, 1, Mantissa)
             tail == SubSeq(m, Mantissa + 1, Len(m))
             more == sticky \/ \E k \in 2..Len(tail) : tail[k] = 1
             up   == tail[1] = 1 /\ (more \/ head[Mantissa] = 1)
         IN  Dyadic(neg, IF up THEN BitsAdd(head, <<1>>) ELSE head, e + Len(tail))

\* the float64 a column holds for the amount n / 100
FromCents(n) ==
    LET d == LongDivide(ShiftLeft(BitsOf(IF n < 0 THEN -n ELSE n), Mantissa + 7), 100, 0)
    IN  RoundNearestEven(n < 0, StripLeading(d.q), -(Mantissa + 7), d.r # 0)

\* x + y, not rounded
ExactAdd(x, y) ==
    LET e == Min(x.e, y.e)
        a == ShiftLeft(x.m, x.e - e)
        b == ShiftLeft(y.m, y.e - e)
    IN  IF x.neg = y.neg THEN Dyadic(x.neg, BitsAdd(a, b), e)
        ELSE IF BitsLess(a, b) THEN Dyadic(y.neg, BitsSub(b, a), e)
        ELSE Dyadic(x.neg, BitsSub(a, b), e)

\* -x
Negated(x) == IF x.m = <<>> THEN x ELSE [x EXCEPT !.neg = ~x.neg]

\* the float64 nearest to x
Rounded(x) == RoundNearestEven(x.neg, x.m, x.e, FALSE)

\* x - y in float64
FSub(x, y) == Rounded(ExactAdd(x, Negated(y)))

\* the amounts the money cells of the record sets explored hold: the premiums,
\* and the claims of the rows up to the longest record set
PremiumAmounts == {-50, 0, 10, 200}
ClaimAmounts == {0} \cup 100..(100 + 2 * (MinSample + 1))

\* the float64 of each of these amounts, converted once
Float64 == [n \in PremiumAmounts \cup ClaimAmounts |-> FromCents(n)]

\* the float64 a money cell holds
AsFloat64(n) == IF n \in DOMAIN Float64 THEN Float64[n] ELSE FromCents(n)

\* premium - claims in float64 for each pair of these amounts, subtracted once
Difference == [p \in PremiumAmounts, c \in ClaimAmounts |-> FSub(Float64[p], Float64[c])]

\* premium - claims in float64, for the cells p and c
Subtracted(p, c) ==
    IF p \in PremiumAmounts /\ c \in ClaimAmounts
    THEN Difference[p, c]
    ELSE FSub(AsFloat64(p), AsFloat64(c))

\* the subtraction the other way round
MarginData_Reversed(frame) ==
    [k \in 1..Len(frame.rows) |->
        FSub(AsFloat64(frame.rows[k].v["TotalClaims"]),
             AsFloat64(frame.rows[k].v["TotalPremium"]))]

\* df['TotalPremium'] - df['TotalClaims'], row by row, in float64
MarginData(frame) ==
    [k \in 1..Len(frame.rows) |->
        Subtracted(frame.rows[k].v["TotalPremium"], frame.rows[k].v["TotalClaims"])]

\* chi2_test: has_claim = (df['TotalClaims'] > 0).astype(int)
ClaimIndicator(frame) ==
    [k \in 1..Len(frame.rows) |-> IF frame.rows[k].v["TotalClaims"] > 0 THEN 1 ELSE 0]

\* has_claim.value_counts().reindex([0, 1], fill_value=0)
ClaimCounts(frame) ==
    LET has_claim == ClaimIndicator(frame)
    IN  <<Cardinality({k \in DOMAIN has_claim : has_claim[k] = 0}),
          Cardinality({k \in DOMAIN has_claim : has_claim[k] = 1})>>

\* the gate with <= in place of <
TooSmall_Inclusive(a, b) == Len_(a) <= MinSample \/ Len_(b) <= MinSample

\* the 30-row gate shared by the three tests
TooSmall(a, b) == Len_(a) < MinSample \/ Len_(b) < MinSample

chi2_test(a, b, kpi, sp) ==
    IF "TotalClaims" \notin a.columns \/ "TotalClaims" \notin b.columns
    THEN NanPair("missing_column", "none")
    ELSE IF TooSmall(a, b)
    THEN NanPair("small_sample", "none")
    ELSE LET count_a == ClaimCounts(a)
             count_b == ClaimCounts(b)
         IN  \* chi2_contingency raises ValueError on a zero expected frequency,
             \* that is on a column of the 2x2 table that sums to zero
             IF count_a[1] + count_b[1] = 0 \/ count_a[2] + count_b[2] = 0
             THEN NanPair("scipy_failed", "chi2_contingency")
             ELSE Sampled(Computed(sp, "chi2_contingency"), count_a, count_b)

\* df[df['TotalClaims'] > 0]['TotalClaims']
ClaimsOnly(frame) ==
    SelectSeq(Column(frame, "TotalClaims"), LAMBDA c : c > 0)

HasPremiumAndClaims(a, b) ==
    /\ "TotalClaims" \in a.columns /\ "TotalPremium" \in a.columns
    /\ "TotalClaims" \in b.columns /\ "TotalPremium" \in b.columns

\* (df['TotalPremium'] <= 0).any()
AnyBadPremium(frame) ==
    \E k \in 1..Len(frame.rows) : frame.rows[k].v["TotalPremium"] <= 0

\* the severity branch testing the claims of every row, the zeros included
SeverityBranch_AllRows(a, b, sp, fn) ==
    IF "TotalClaims" \notin a.columns \/ "TotalClaims" \notin b.columns
    THEN NanPair("exception", "none")
    ELSE Sampled(Computed(sp, fn), Column(a, "TotalClaims"), Column(b, "TotalClaims"))

\* the branch on kpi == "severity" of ttest and of mann_whitney_u
SeverityBranch(a, b, sp, fn) ==
    IF "TotalClaims" \notin a.columns \/ "TotalClaims" \notin b.columns
    THEN NanPair("exception", "none")              \* KeyError, caught by except
    ELSE IF Len(ClaimsOnly(a)) = 0 \/ Len(ClaimsOnly(b)) = 0
    THEN NanPair("no_claims", "none")
    ELSE Sampled(Computed(sp, fn), ClaimsOnly(a), ClaimsOnly(b))

\* the loss_ratio branch dropping the rows with a premium <= 0 and testing the rest
LossRatioBranch_DropRows(a, b, sp, fn) ==
    IF ~HasPremiumAndClaims(a, b)
    THEN NanPair("missing_column", "none")
    ELSE LET rest(frame) ==
                 Frame(frame.columns,
                       SelectSeq(frame.rows, LAMBDA r : r.v["TotalPremium"] > 0))
         IN  Sampled(Computed(sp, fn), LossRatioData(rest(a)), LossRatioData(rest(b)))

\* the branch on kpi == "loss_ratio" of ttest and of mann_whitney_u
LossRatioBranch(a, b, sp, fn) ==
    IF ~HasPremiumAndClaims(a, b)
    THEN NanPair("missing_column", "none")
    ELSE IF AnyBadPremium(a) \/ AnyBadPremium(b)
    THEN NanPair("bad_premium", "none")
    ELSE Sampled(Computed(sp, fn), LossRatioData(a), LossRatioData(b))

ttest(a, b, kpi, sp) ==
    IF TooSmall(a, b)
    THEN NanPair("small_sample", "none")
    ELSE CASE kpi = "severity" -> SeverityBranch(a, b, sp, "ttest_ind")
           [] kpi = "margin" ->
                IF ~HasPremiumAndClaims(a, b)
                THEN NanPair("exception", "none")  \* KeyError, caught by except
                ELSE Sampled(Computed(sp, "ttest_ind"), MarginData(a), MarginData(b))
           [] kpi = "loss_ratio" -> LossRatioBranch(a, b, sp, "ttest_ind")
           [] OTHER -> NanPair("unsupported_kpi", "none")

mann_whitney_u(a, b, kpi, sp) ==
    IF TooSmall(a, b)
    THEN NanPair("small_sample", "none")
    ELSE CASE kpi = "severity" -> SeverityBranch(a, b, sp, "mannwhitneyu")
           [] kpi = "loss_ratio" -> LossRatioBranch(a, b, sp, "mannwhitneyu")
           [] OTHER -> NanPair("unsupported_kpi", "none")

\* the keys of the dict `tests` of run_test
TestTypes == {"chi2", "ttest", "mw_u"}

run_test(a, b, test_type, kpi, sp) ==
    IF test_type \notin TestTypes
    THEN NanPair("unsupported_test", "none")
    ELSE CASE test_type = "chi2" -> chi2_test(a, b, kpi, sp)
           [] test_type = "ttest" -> ttest(a, b, kpi, sp)
           [] test_type = "mw_u" -> mann_whitney_u(a, b, kpi, sp)

\* the scipy routine a test type ends in
ScipyOf(test_type) ==
    CASE test_type = "chi2" -> "chi2_contingency"
      [] test_type = "ttest" -> "ttest_ind"
      [] test_type = "mw_u" -> "mannwhitneyu"
      [] OTHER -> "none"

(***************************************************************************)
(* metrics.py, as run_tests calls it: on one group, group_by left to None. *)
(* A metric returns a float: NaN, or the mean of the per-row values `of`.  *)
(***************************************************************************)
NanFloat(why) == [nan |-> TRUE, why |-> why, of |-> <<>>]
MeanOf(values) == [nan |-> FALSE, why |-> "ok", of |-> values]

\* df[df['TotalPremium'] > 0].copy()
ValidPremium(frame) ==
    Frame(frame.columns, SelectSeq(frame.rows, LAMBDA r : r.v["TotalPremium"] > 0))

\* calculate_loss_ratio dividing on every row of df
calculate_loss_ratio_NoFilter(frame) ==
    IF "TotalClaims" \notin frame.columns \/ "TotalPremium" \notin frame.columns
    THEN NanFloat("missing_column")
    ELSE IF Empty(frame)
    THEN NanFloat("no_valid_premium")
    ELSE MeanOf(LossRatioData(frame))

calculate_loss_ratio(frame) ==
    IF "TotalClaims" \notin frame.columns \/ "TotalPremium" \notin frame.columns
    THEN NanFloat("missing_column")
    ELSE IF Empty(ValidPremium(frame))
    THEN NanFloat("no_valid_premium")
    ELSE MeanOf(LossRatioData(ValidPremium(frame)))

\* the indicator with >= in place of >
has_claim_Inclusive(frame) ==
    [k \in 1..Len(frame.rows) |-> IF frame.rows[k].v["TotalClaims"] >= 0 THEN 1 ELSE 0]

\* calculate_claim_frequency: has_claim = (df['TotalClaims'] > 0).astype(int)
has_claim(frame) ==
    [k \in 1..Len(frame.rows) |-> IF frame.rows[k].v["TotalClaims"] > 0 THEN 1 ELSE 0]

calculate_claim_frequency(frame) ==
    IF "TotalClaims" \notin frame.columns
    THEN NanFloat("missing_column")
    ELSE IF Empty(frame)
    THEN NanFloat("empty_mean")
    ELSE MeanOf(has_claim(frame))

calculate_claim_severity(frame) ==
    IF "TotalClaims" \notin frame.columns
    THEN NanFloat("missing_column")
    ELSE IF Len(ClaimsOnly(frame)) = 0
    THEN NanFloat("no_claims")
    ELSE MeanOf(ClaimsOnly(frame))

\* calculate_margin without its column check: the KeyError of the subtraction
\* is caught by `except Exception` and logged as an error
calculate_margin_Unchecked(frame) ==
    IF "TotalPremium" \notin frame.columns \/ "TotalClaims" \notin frame.columns
    THEN NanFloat("exception")
    ELSE IF Empty(frame)
    THEN NanFloat("empty_mean")
    ELSE MeanOf(MarginData(frame))

\* the mean of an empty Series is NaN
calculate_margin(frame) ==
    IF "TotalPremium" \notin frame.columns \/ "TotalClaims" \notin frame.columns
    THEN NanFloat("missing_column")
    ELSE IF Empty(frame)
    THEN NanFloat("empty_mean")
    ELSE MeanOf(MarginData(frame))

(***************************************************************************)
(* segmentation.py: ensure_balance, flag_imbalances                        *)
(***************************************************************************)
\* the p-values scipy can hand back to ensure_balance
BalanceOut == {49, 50, NaN}

\* the dtype of a column of the groups: df_a and df_b are selections of df and
\* keep its dtypes; pandas gives float64 to the two money columns, int64 to a
\* column of whole numbers (Age) and object to a column of text or to a column
\* that holds no value at all (a record set of no rows)
Dtype(cov) ==
    IF cov \notin NumericColumns \/ df.rows = <<>> THEN "object"
    ELSE IF cov \in {"TotalPremium", "TotalClaims"} THEN "float64"
    ELSE "int64"

\* df_a[cov].dtype in ['int64', 'float64']
IsNumeric(cov) == Dtype(cov) \in {"int64", "float64"}

\* pd.crosstab(df_a[cov], df_b[cov]) pairs the two series on the index labels
\* they share; its shape is (categories of A, categories of B) over those rows
CrosstabShape(a, b, cov) ==
    LET common == Indexes(a) \cap Indexes(b)
        cats(frame) == {frame.rows[k].v[cov] :
                          k \in {j \in 1..Len(frame.rows) : frame.rows[j].idx \in common}}
    IN  <<Cardinality(cats(a)), Cardinality(cats(b))>>

\* whether the loop body of ensure_balance appends a record for cov
BalanceTested(a, b, cov) ==
    /\ cov \in a.columns
    /\ cov \in b.columns
    /\ \/ IsNumeric(cov)
       \/ CrosstabShape(a, b, cov)[1] >= 2 /\ CrosstabShape(a, b, cov)[2] >= 2

BalanceRecord(cov, p) ==
    [covariate |-> cov, p_value |-> p,
     test_type |-> IF IsNumeric(cov) THEN "t-test" ELSE "chi-squared"]

\* the loop with `break` in place of `continue` on a missing covariate
RECURSIVE BalanceLoop_Break(_, _, _, _, _)
BalanceLoop_Break(a, b, covariates, ps, k) ==
    IF k > Len(covariates)
    THEN <<>>
    ELSE IF covariates[k] \notin a.columns \/ covariates[k] \notin b.columns
    THEN <<>>
    ELSE (IF BalanceTested(a, b, covariates[k])
          THEN <<BalanceRecord(covariates[k], ps[k])>>
          ELSE <<>>) \o BalanceLoop_Break(a, b, covariates, ps, k + 1)

\* ps[k] is the p-value scipy gives for the k-th covariate, when it is tested
RECURSIVE BalanceLoop(_, _, _, _, _)
BalanceLoop(a, b, covariates, ps, k) ==
    IF k > Len(covariates)
    THEN <<>>
    ELSE (IF BalanceTested(a, b, covariates[k])
          THEN <<BalanceRecord(covariates[k], ps[k])>>
          ELSE <<>>) \o BalanceLoop(a, b, covariates, ps, k + 1)

ensure_balance(a, b, covariates, ps) == BalanceLoop(a, b, covariates, ps, 1)

\* the line ensure_balance logs for each covariate; the line does not name the
\* test specification, so the event carries test 0
RECURSIVE BalanceLog(_, _, _, _, _)
BalanceLog(a, b, covariates, ps, k) ==
    IF k > Len(covariates)
    THEN <<>>
    ELSE LET cov == covariates[k]
             line == IF cov \notin a.columns \/ cov \notin b.columns
                     THEN [level |-> "warning", event |-> "covariate_missing", test |-> 0]
                     ELSE IF ~BalanceTested(a, b, cov)
                     THEN [level |-> "warning", event |-> "insufficient_categories", test |-> 0]
                     ELSE IF Lt(ps[k], 50)
                     THEN [level |-> "warning", event |-> "covariate_unbalanced", test |-> 0]
                     ELSE [level |-> "info", event |-> "covariate_balanced", test |-> 0]
         IN  <<line>> \o BalanceLog(a, b, covariates, ps, k + 1)

\* a filter that flags nothing
flag_imbalances_None(balance_df, threshold) == <<>>

\* the filter with <= in place of <
flag_imbalances_Inclusive(balance_df, threshold) ==
    IF \E k \in 1..Len(balance_df) : "p_value" \notin DOMAIN balance_df[k]
    THEN <<>>
    ELSE SelectSeq(balance_df,
                   LAMBDA r : r.p_value # NaN /\ threshold # NaN /\ r.p_value <= threshold)

\* a report without the p_value column gives the empty DataFrame; otherwise
\* balance_df[balance_df['p_value'] < threshold]
flag_imbalances(balance_df, threshold) ==
    IF \E k \in 1..Len(balance_df) : "p_value" \notin DOMAIN balance_df[k]
    THEN <<>>
    ELSE SelectSeq(balance_df, LAMBDA r : Lt(r.p_value, threshold))

\* the oracles that differ only where scipy is not called are one oracle
BalanceOracles(a, b, covariates) ==
    { ps \in [1..Len(covariates) -> BalanceOut] :
        \A k \in 1..Len(covariates) :
            /\ ~BalanceTested(a, b, covariates[k]) => ps[k] = NaN
            /\ (BalanceTested(a, b, covariates[k]) /\ ~IsNumeric(covariates[k]))
                  => ps[k] # NaN }

(***************************************************************************)
(* Configurations: cfg["tests"] is a list of dicts read from YAML, so a    *)
(* key may be absent from a test specification.                            *)
(***************************************************************************)
Has(t, key) == key \in DOMAIN t
Drop(t, key) == [k \in DOMAIN t \ {key} |-> t[k]]
With(t, key, val) == [k \in DOMAIN t \cup {key} |-> IF k = key THEN val ELSE t[k]]

BaseTest ==
    [name |-> "base", feature |-> "Gender", group_a |-> "M", group_b |-> "F",
     kpi |-> "margin", test |-> "ttest"]

\* the base specification and the specifications one change away from it
TestUniverse ==
    { BaseTest,
      [BaseTest EXCEPT !.name = "no_column", !.feature = "Region"],
      Drop([BaseTest EXCEPT !.name = "no_feature_key"], "feature"),
      [BaseTest EXCEPT !.name = "same_value", !.group_b = "M"],
      [BaseTest EXCEPT !.name = "no_rows", !.group_b = "X"],
      [BaseTest EXCEPT !.name = "frequency_chi2", !.kpi = "frequency", !.test = "chi2"],
      [BaseTest EXCEPT !.name = "severity", !.kpi = "severity"],
      [BaseTest EXCEPT !.name = "loss_ratio", !.kpi = "loss_ratio"],
      [BaseTest EXCEPT !.name = "bad_kpi", !.kpi = "roi"],
      Drop([BaseTest EXCEPT !.name = "no_kpi_key"], "kpi"),
      [BaseTest EXCEPT !.name = "margin_mw_u", !.test = "mw_u"],
      [BaseTest EXCEPT !.name = "bad_test", !.test = "ztest"],
      Drop([BaseTest EXCEPT !.name = "no_test_key"], "test"),
      With([BaseTest EXCEPT !.name = "cov_none"], "covariates", <<>>),
      With([BaseTest EXCEPT !.name = "cov_age"], "covariates", <<"Age">>),
      With([BaseTest EXCEPT !.name = "cov_absent"], "covariates", <<"Region">>),
      With([BaseTest EXCEPT !.name = "cov_mixed"], "covariates", <<"Region", "Age">>),
      With([BaseTest EXCEPT !.name = "cov_gender"], "covariates", <<"Gender">>) }

TestLists == UNION { [1..n -> TestUniverse] : n \in 1..MaxSpecs }

\* the cleaned record sets run_tests loads: both groups at the 30-row gate, one
\* group a row short of it, a file without the premium column and a file
\* without the claims column
DataSets ==
    { MakeDf(MinSample, MinSample, AllColumns, 3, 0),
      MakeDf(MinSample - 1, MinSample, AllColumns, 3, 0),
      MakeDf(MinSample, MinSample, AllColumns \ {"TotalPremium"}, 3, 0),
      MakeDf(MinSample, MinSample, AllColumns \ {"TotalClaims"}, 3, 0) }

(***************************************************************************)
(* run_hypothesis_tests.py: main, run_tests, write_markdown_summary        *)
(***************************************************************************)
Event(level, event, k) == [level |-> level, event |-> event, test |-> k]

Init ==
    /\ df \in DataSets
    /\ tests \in TestLists
    /\ alpha = 50
    /\ pc = "start"
    /\ i = 0
    /\ df_a = NoFrame
    /\ df_b = NoFrame
    /\ results = <<>>
    /\ log = <<>>
    /\ summary = NotWritten
    /\ ret = NoRet

\* a check that requires the claims column only
MissingColumns_ClaimsOnly(frame) == {"TotalClaims"} \ frame.columns

\* required_columns - set(df.columns)
MissingColumns(frame) == {"TotalClaims", "TotalPremium"} \ frame.columns

\* `return results` in place of `continue`
Continue_Return(event) ==
    /\ log' = Append(log, event)
    /\ pc' = "returned"
    /\ df_a' = NoFrame
    /\ df_b' = NoFrame
    /\ UNCHANGED <<df, tests, alpha, i, results, summary, ret>>

\* `continue`: on to the next test specification; df_a and df_b are not read
\* again before ab_segment assigns them
Continue(event) ==
    /\ log' = Append(log, event)
    /\ i' = i + 1
    /\ pc' = "loop"
    /\ df_a' = NoFrame
    /\ df_b' = NoFrame
    /\ UNCHANGED <<df, tests, alpha, results, summary, ret>>

\* `continue` once the callee has logged its own lines
ContinueAfter(lines, event) ==
    /\ log' = Append(log \o lines, event)
    /\ i' = i + 1
    /\ pc' = "loop"
    /\ df_a' = NoFrame
    /\ df_b' = NoFrame
    /\ UNCHANGED <<df, tests, alpha, results, summary, ret>>

\* an exception leaves run_tests; main's `except Exception` logs it and returns
\* without calling write_markdown_summary
Propagate(exception) ==
    /\ log' = Append(log, Event("error", exception, i))
    /\ pc' = "done"
    /\ df_a' = NoFrame
    /\ df_b' = NoFrame
    /\ UNCHANGED <<df, tests, alpha, i, results, summary, ret>>

\* run_tests up to the for-loop: read the file, check the required columns
LoadData ==
    /\ pc = "start"
    /\ IF MissingColumns(df) # {}
       THEN /\ log' = Append(log, Event("error", "missing_required_columns", 0))
            /\ pc' = "returned"
            /\ UNCHANGED i
       ELSE /\ pc' = "loop"
            /\ i' = 1
            /\ UNCHANGED log
    /\ results' = <<>>
    /\ UNCHANGED <<df, tests, alpha, df_a, df_b, summary, ret>>

\* a failed segmentation that is logged and then ignored: the loop goes on to
\* the balance check with empty groups
Segment_Unchecked ==
    /\ pc = "loop"
    /\ i <= Len(tests)
    /\ LET t == tests[i]
           ok == Has(t, "feature") /\ Has(t, "group_a") /\ Has(t, "group_b")
       IN  IF ~(Has(t, "name") /\ Has(t, "kpi"))
           THEN Propagate("KeyError")
           ELSE LET seg == IF ok THEN ab_segment(df, t.feature, t.group_a, t.group_b)
                           ELSE [raised |-> "KeyError", df_a |-> NoFrame, df_b |-> NoFrame]
                IN  /\ df_a' = IF seg.raised = "none" THEN seg.df_a ELSE NoFrame
                    /\ df_b' = IF seg.raised = "none" THEN seg.df_b ELSE NoFrame
                    /\ pc' = "balance"
                    /\ log' = Append(log, Event("info", "running_test", i))
                    /\ UNCHANGED <<df, tests, alpha, i, results, summary, ret>>

\* the head of the loop body and the segmentation of tests[i]; the line
\* "Running test: ..." is logged once name and kpi are read
Segment ==
    /\ pc = "loop"
    /\ i <= Len(tests)
    /\ LET t == tests[i]
           running == Event("info", "running_test", i)
       IN  IF ~(Has(t, "name") /\ Has(t, "kpi"))
           THEN Propagate("KeyError")
           ELSE IF ~(Has(t, "feature") /\ Has(t, "group_a") /\ Has(t, "group_b"))
           THEN ContinueAfter(<<running>>, Event("warning", "segmentation_failed", i))
           ELSE LET seg == ab_segment(df, t.feature, t.group_a, t.group_b)
                IN  IF seg.raised # "none"
                    THEN ContinueAfter(<<running>>,
                                       Event("warning", "segmentation_failed", i))
                    ELSE /\ df_a' = seg.df_a
                         /\ df_b' = seg.df_b
                         /\ pc' = "balance"
                         /\ log' = Append(log, running)
                         /\ UNCHANGED <<df, tests, alpha, i, results, summary, ret>>

\* test.get("covariates", [])
Covariates(t) == IF Has(t, "covariates") THEN t.covariates ELSE <<>>

\* an empty report never taken for a failed check
BalanceCheckFailed_Never(balance_df) == FALSE

\* balance_df.empty or 'p_value' not in balance_df.columns
BalanceCheckFailed(balance_df) ==
    \/ balance_df = <<>>
    \/ \E k \in 1..Len(balance_df) : "p_value" \notin DOMAIN balance_df[k]

\* the balance check of tests[i]
Balance ==
    /\ pc = "balance"
    /\ LET covariates == Covariates(tests[i])
       IN  IF covariates = <<>>
           THEN /\ pc' = "kpi"
                /\ UNCHANGED <<df, tests, alpha, i, df_a, df_b, results, log, summary, ret>>
           ELSE \E ps \in BalanceOracles(df_a, df_b, covariates) :
                  LET balance_df == ensure_balance(df_a, df_b, covariates, ps)
                      lines == BalanceLog(df_a, df_b, covariates, ps, 1)
                  IN  IF BalanceCheckFailed(balance_df)
                      THEN ContinueAfter(lines, Event("warning", "balance_check_failed", i))
                      ELSE IF flag_imbalances(balance_df, BalanceThreshold) # <<>>
                      THEN ContinueAfter(lines, Event("warning", "imbalance_detected", i))
                      ELSE /\ pc' = "kpi"
                           /\ log' = log \o lines
                           /\ UNCHANGED <<df, tests, alpha, i, df_a, df_b, results,
                                          summary, ret>>

\* the KPIs run_tests computes per group with metrics.py
KnownKpis == {"frequency", "severity", "margin", "loss_ratio"}

\* the if/elif chain on kpi of tests[i], and the line that logs the two KPIs
ComputeKpi ==
    /\ pc = "kpi"
    /\ IF tests[i].kpi \in KnownKpis
       THEN /\ pc' = "test"
            /\ log' = Append(log, Event("info", "kpi_values", i))
            /\ UNCHANGED <<df, tests, alpha, i, df_a, df_b, results, summary, ret>>
       ELSE Continue(Event("error", "unsupported_kpi", i))

\* the decision in the log line of run_tests: p_value < cfg['alpha']
LoggedDecision(p_value, a) ==
    IF Lt(p_value, a) THEN "Reject H0" ELSE "Fail to Reject H0"

\* the new result put in front of the list
AppendResult_Front(rs, result) == <<result>> \o rs

\* results.append({...})
AppendResult(rs, result) == Append(rs, result)

\* run_test on the two groups of tests[i], the result appended and logged
Dispatch ==
    /\ pc = "test"
    /\ LET t == tests[i]
       IN  IF ~Has(t, "test")
           THEN Propagate("KeyError")
           ELSE \E sp \in ScipyOut :
                  /\ OracleFits(ScipyOf(t.test), sp)
                  /\ LET out == run_test(df_a, df_b, t.test, t.kpi, sp)
                     IN  /\ results' = AppendResult(results,
                                [name |-> t.name, kpi |-> t.kpi,
                                 statistic |-> out.statistic,
                                 p_value |-> out.p_value, alpha |-> alpha])
                         /\ log' = Append(log,
                                With(Event("info", out.why, i), "decision",
                                     LoggedDecision(out.p_value, alpha)))
                  /\ i' = i + 1
                  /\ pc' = "loop"
                  /\ df_a' = NoFrame
                  /\ df_b' = NoFrame
                  /\ UNCHANGED <<df, tests, alpha, summary, ret>>

\* the loop is over: return results
Return ==
    /\ pc = "loop"
    /\ i > Len(tests)
    /\ pc' = "returned"
    /\ UNCHANGED <<df, tests, alpha, i, df_a, df_b, results, log, summary, ret>>

\* the decision with <= in place of <
Decision_Inclusive(p_value, a) ==
    IF p_value # NaN /\ p_value <= a THEN "Reject H0" ELSE "Fail to Reject H0"

\* the decision column of the summary: result['p_value'] < result['alpha']
Decision(p_value, a) == IF Lt(p_value, a) THEN "Reject H0" ELSE "Fail to Reject H0"

\* main: write_markdown_summary(results, ...) once run_tests has returned
WriteSummary ==
    /\ pc = "returned"
    /\ summary' = [written |-> TRUE,
                   rows |-> [k \in 1..Len(results) |->
                               [name |-> results[k].name, kpi |-> results[k].kpi,
                                statistic |-> results[k].statistic,
                                p_value |-> results[k].p_value,
                                decision |-> Decision(results[k].p_value,
                                                      results[k].alpha)]]]
    /\ pc' = "done"
    /\ UNCHANGED <<df, tests, alpha, i, df_a, df_b, results, log, ret>>

Next ==
    \/ LoadData
    \/ Segment
    \/ Balance
    \/ ComputeKpi
    \/ Dispatch
    \/ Return
    \/ WriteSummary

Spec == Init /\ [][Next]_vars

(***************************************************************************)
(* Direct calls of ab_segment: every record set of at most MaxRows rows,   *)
(* with and without the feature column, and every pair of requested values *)
(***************************************************************************)
GroupValues == {"M", "F", "X"}

SmallFrames ==
    { Frame(cols, [k \in 1..n |->
                     [idx |-> k - 1, v |-> [c \in cols |-> Cell(c, k, g[k], 2, 0)]]]) :
        <<n, g, cols>> \in
            UNION { {<<m, h, cs>> : h \in [1..m -> {"M", "F"}],
                                    cs \in {AllColumns, AllColumns \ {"Gender"}}} :
                    m \in 0..MaxRows } }

InitSegment ==
    /\ df \in SmallFrames
    /\ tests \in { <<[feature |-> f, group_a |-> a, group_b |-> b]>> :
                     f \in {"Gender", "Region"}, a \in GroupValues, b \in GroupValues }
    /\ alpha = 50
    /\ pc = "call_ab_segment"
    /\ i = 1
    /\ df_a = NoFrame
    /\ df_b = NoFrame
    /\ results = <<>>
    /\ log = <<>>
    /\ summary = NotWritten
    /\ ret = NoRet

CallSegment ==
    /\ pc = "call_ab_segment"
    /\ ret' = ab_segment(df, tests[1].feature, tests[1].group_a, tests[1].group_b)
    /\ pc' = "called"
    /\ UNCHANGED <<df, tests, alpha, i, df_a, df_b, results, log, summary>>

SpecSegment == InitSegment /\ [][CallSegment]_vars

(***************************************************************************)
(* Direct calls of run_test: groups of 0, 1, 29, 30 and 31 rows, with and  *)
(* without claims, zero premiums and the two money columns, under every    *)
(* test type and KPI                                                       *)
(***************************************************************************)
GateSizes == {0, 1, MinSample - 1, MinSample, MinSample + 1}

TestTypeNames == {"chi2", "ttest", "mw_u", "ztest"}
KpiNames == {"frequency", "severity", "margin", "loss_ratio", "roi"}

GroupSources ==
    { MakeDf(nM, nF, cols, claimsEvery, zeroPremiumEvery) :
        nM \in GateSizes, nF \in GateSizes,
        cols \in {AllColumns, AllColumns \ {"TotalClaims"}, AllColumns \ {"TotalPremium"}},
        claimsEvery \in {0, 2, 3}, zeroPremiumEvery \in {0, 5} }

InitRunTest ==
    /\ df \in GroupSources
    /\ df_a = Select(df, "Gender", "M")
    /\ df_b = Select(df, "Gender", "F")
    /\ tests \in { <<[test |-> t, kpi |-> k]>> : t \in TestTypeNames, k \in KpiNames }
    /\ alpha = 50
    /\ pc = "call_run_test"
    /\ i = 1
    /\ results = <<>>
    /\ log = <<>>
    /\ summary = NotWritten
    /\ ret = NoRet

CallRunTest ==
    /\ pc = "call_run_test"
    /\ \E sp \in ScipyOut :
          /\ OracleFits(ScipyOf(tests[1].test), sp)
          /\ ret' = run_test(df_a, df_b, tests[1].test, tests[1].kpi, sp)
    /\ pc' = "called"
    /\ UNCHANGED <<df, tests, alpha, i, df_a, df_b, results, log, summary>>

SpecRunTest == InitRunTest /\ [][CallRunTest]_vars

(***************************************************************************)
(* Direct calls of flag_imbalances: every report of at most MaxReport rows *)
(* with p-values around the thresholds, a report without the p_value       *)
(* column, and the threshold given or left to its default                  *)
(***************************************************************************)
ReportRows ==
    { [covariate |-> cov, p_value |-> p,
       test_type |-> IF cov = "Age" THEN "t-test" ELSE "chi-squared"] :
        cov \in {"Age", "Gender"}, p \in {NaN, 49, 50, 51} }

Reports ==
    UNION { [1..n -> ReportRows] : n \in 0..MaxReport }
        \cup { <<[covariate |-> "Age", test_type |-> "t-test"]>> }

InitFlag ==
    /\ tests \in { <<[balance_df |-> r]>> : r \in Reports }
                 \cup { <<[balance_df |-> r, threshold |-> th]>> :
                          r \in Reports, th \in {49, 50, 51} }
    /\ df = NoFrame
    /\ alpha = 50
    /\ pc = "call_flag_imbalances"
    /\ i = 1
    /\ df_a = NoFrame
    /\ df_b = NoFrame
    /\ results = <<>>
    /\ log = <<>>
    /\ summary = NotWritten
    /\ ret = NoRet

\* flag_imbalances(balance_df) or flag_imbalances(balance_df, threshold)
CallFlag ==
    /\ pc = "call_flag_imbalances"
    /\ ret' = [returned |->
                 flag_imbalances(tests[1].balance_df,
                                 IF Has(tests[1], "threshold")
                                 THEN tests[1].threshold ELSE DefaultThreshold)]
    /\ pc' = "called"
    /\ UNCHANGED <<df, tests, alpha, i, df_a, df_b, results, log, summary>>

SpecFlag == InitFlag /\ [][CallFlag]_vars

(***************************************************************************)
(* Direct calls of ensure_balance on the two groups ab_segment selects     *)
(* from a record set of at most MaxRows rows with a categorical Province   *)
(* column, group B with or without its Age column, under every covariate   *)
(* list of at most MaxCovs names                                           *)
(***************************************************************************)
Provinces == {"Gauteng", "Western Cape"}

BalanceFrames ==
    { Frame(AllColumns \cup {"Province"},
            [k \in 1..n |->
               [idx |-> k - 1,
                v |-> [c \in AllColumns \cup {"Province"} |->
                         IF c = "Province" THEN pr[k] ELSE Cell(c, k, g[k], 2, 0)]]]) :
        <<n, g, pr>> \in
            UNION { {<<m, h, q>> : h \in [1..m -> {"M", "F"}], q \in [1..m -> Provinces]} :
                    m \in 0..MaxRows } }

\* df.drop(columns=[c])
DropColumn(frame, c) ==
    Frame(frame.columns \ {c},
          [k \in 1..Len(frame.rows) |->
             [idx |-> frame.rows[k].idx,
              v |-> [d \in frame.columns \ {c} |-> frame.rows[k].v[d]]]])

CovariateNames == {"Age", "TotalPremium", "Province", "Region"}

CovariateLists == UNION { [1..n -> CovariateNames] : n \in 0..MaxCovs }

InitBalance ==
    /\ df \in BalanceFrames
    /\ tests \in { <<[group_a |-> a, group_b |-> b, covariates |-> cs]>> :
                     a \in {"M", "F"}, b \in {"M", "F"}, cs \in CovariateLists }
    /\ df_a = Select(df, "Gender", tests[1].group_a)
    /\ df_b \in { Select(df, "Gender", tests[1].group_b),
                   DropColumn(Select(df, "Gender", tests[1].group_b), "Age") }
    /\ alpha = 50
    /\ pc = "call_ensure_balance"
    /\ i = 1
    /\ results = <<>>
    /\ log = <<>>
    /\ summary = NotWritten
    /\ ret = NoRet

CallBalance ==
    /\ pc = "call_ensure_balance"
    /\ \E ps \in BalanceOracles(df_a, df_b, tests[1].covariates) :
          ret' = [returned |-> ensure_balance(df_a, df_b, tests[1].covariates, ps)]
    /\ pc' = "called"
    /\ UNCHANGED <<df, tests, alpha, i, df_a, df_b, results, log, summary>>

SpecBalance == InitBalance /\ [][CallBalance]_vars

(***************************************************************************)
(* Direct calls of the four metrics of metrics.py on every record set      *)
(* of at most MaxRows rows with claims of 0 or 1.00 and premiums of -0.50, *)
(* 0, 0.10 or 2.00, with and without the two money columns; together with  *)
(* the direct calls of run_test they are the computations of the KPIs      *)
(***************************************************************************)
MoneyCells == {0, 100} \X {-50, 0, 10, 200}

MetricFrames ==
    { Frame(cols, [k \in 1..n |->
                     [idx |-> k - 1,
                      v |-> [c \in cols |->
                               CASE c = "TotalClaims" -> money[k][1]
                                 [] c = "TotalPremium" -> money[k][2]
                                 [] OTHER -> Cell(c, k, "M", 0, 0)]]]) :
        <<n, money, cols>> \in
            UNION { {<<m, h, cs>> :
                       h \in [1..m -> MoneyCells],
                       cs \in {AllColumns, AllColumns \ {"TotalClaims"},
                               AllColumns \ {"TotalPremium"}}} :
                    m \in 0..MaxRows } }

MetricNames == {"loss_ratio", "margin", "frequency", "severity"}

InitMetric ==
    /\ df \in MetricFrames
    /\ tests \in { <<[metric |-> f]>> : f \in MetricNames }
    /\ alpha = 50
    /\ pc = "call_metric"
    /\ i = 1
    /\ df_a = NoFrame
    /\ df_b = NoFrame
    /\ results = <<>>
    /\ log = <<>>
    /\ summary = NotWritten
    /\ ret = NoRet

\* a metric that stores its per-row values in a new column of df itself
CallMetric_InPlace ==
    /\ pc = "call_metric"
    /\ ret' = CASE tests[1].metric = "loss_ratio" -> calculate_loss_ratio(df)
                [] tests[1].metric = "margin" -> calculate_margin(df)
                [] tests[1].metric = "frequency" -> calculate_claim_frequency(df)
                [] tests[1].metric = "severity" -> calculate_claim_severity(df)
    /\ df' = Frame(df.columns \cup {"kpi"},
                   [k \in 1..Len(df.rows) |->
                      [idx |-> df.rows[k].idx,
                       v |-> [c \in df.columns \cup {"kpi"} |->
                                IF c = "kpi" THEN 0 ELSE df.rows[k].v[c]]]])
    /\ pc' = "metric_called"
    /\ UNCHANGED <<tests, alpha, i, df_a, df_b, results, log, summary>>

CallMetric ==
    /\ pc = "call_metric"
    /\ ret' = CASE tests[1].metric = "loss_ratio" -> calculate_loss_ratio(df)
                [] tests[1].metric = "margin" -> calculate_margin(df)
                [] tests[1].metric = "frequency" -> calculate_claim_frequency(df)
                [] tests[1].metric = "severity" -> calculate_claim_severity(df)
    /\ pc' = "metric_called"
    /\ UNCHANGED <<df, tests, alpha, i, df_a, df_b, results, log, summary>>

SpecKpi == (InitMetric \/ InitRunTest) /\ [][CallMetric \/ CallRunTest]_vars

\* every direct call of an operation of the engine
SpecCalls ==
    /\ InitSegment \/ InitBalance \/ InitFlag \/ InitMetric \/ InitRunTest
    /\ [][CallSegment \/ CallBalance \/ CallFlag \/ CallMetric \/ CallRunTest]_vars

(***************************************************************************)
(* Vocabulary of the properties, stated on the inputs and on what the run  *)
(* left behind (results, log, summary).                                    *)
(***************************************************************************)
SkipEvents == {"segmentation_failed", "balance_check_failed", "imbalance_detected"}

\* test k left one of `events` in the log
Logged(k, events) ==
    \E n \in 1..Len(log) : log[n].test = k /\ log[n].event \in events

\* the lines that report the progress of a test, not its outcome
ProgressEvents == {"running_test", "kpi_values"}

\* test k left its outcome in the log: a skip, an error or a result
Processed(k) ==
    \E n \in 1..Len(log) : log[n].test = k /\ log[n].event \notin ProgressEvents

\* test k reached the append of its result: the log holds its result line
Recorded(k) ==
    \E n \in 1..Len(log) :
        log[n].test = k /\ log[n].level = "info" /\ log[n].event \notin ProgressEvents

\* the position in results of the result of test k, when it has one
ResultAt(k) == Cardinality({j \in 1..k : Recorded(j)})

HasResult(k) ==
    /\ Recorded(k)
    /\ ResultAt(k) <= Len(results)
    /\ results[ResultAt(k)].name = tests[k].name
    /\ results[ResultAt(k)].kpi = tests[k].kpi

\* main gave up: its except branch ran instead of write_markdown_summary
Aborted == pc = "done" /\ ~summary.written

RowsWith(frame, feature, value) ==
    Cardinality({k \in 1..Len(frame.rows) : frame.rows[k].v[feature] = value})

FullKeys(t) == {"name", "feature", "group_a", "group_b", "kpi", "test"} \subseteq DOMAIN t

\* the feature is a column and both requested values have rows
Segmentable(t) ==
    /\ FullKeys(t)
    /\ t.feature \in df.columns
    /\ \E k \in 1..Len(df.rows) : df.rows[k].v[t.feature] = t.group_a
    /\ \E k \in 1..Len(df.rows) : df.rows[k].v[t.feature] = t.group_b

\* a valid specification on a valid record set (one with the premium and claims
\* columns): segmentable, no covariates to check, a supported KPI
PassesAll(t) ==
    /\ {"TotalClaims", "TotalPremium"} \subseteq df.columns
    /\ Segmentable(t)
    /\ ("covariates" \in DOMAIN t => t.covariates = <<>>)
    /\ t.kpi \in {"frequency", "severity", "margin", "loss_ratio"}

MissingFeature(t) == FullKeys(t) /\ t.feature \notin df.columns

\* C1: a test specification skipped while segmenting or balance-checking never
\* stops the loop: run_tests moves on to the next specification, every later
\* specification the loop has passed was processed, and the valid ones among
\* them have their result in the list; run_tests returns only past the last one.
C1_SkipDoesNotStopLaterSpecs ==
    \A k \in 1..Len(tests) :
        Logged(k, SkipEvents) =>
            /\ i > k
            /\ ~(Aborted /\ i = k)
            /\ \A j \in (k + 1)..Len(tests) :
                   i > j => Processed(j) /\ (PassesAll(tests[j]) => HasResult(j))
            /\ (pc = "returned" \/ summary.written) => i = Len(tests) + 1

C1_Witness ==
    /\ pc = "returned"
    /\ Len(tests) = 2
    /\ Logged(1, {"balance_check_failed", "imbalance_detected"})
    /\ PassesAll(tests[2])
    /\ HasResult(2)
    /\ Len(results) = 1

\* C2: whatever one test specification does, main ends with the summary written
\* and holding the result of every valid specification of the configuration.
C2_PartialResultsAlwaysWritten ==
    pc = "done" =>
        \A k \in 1..Len(tests) :
            PassesAll(tests[k]) =>
                \E r \in 1..Len(summary.rows) : summary.rows[r].name = tests[k].name

\* C3: a run over one specification whose feature is not a column and one valid
\* specification, in either order, ends normally with exactly one result, the
\* valid specification's.
C3_MissingFeatureAndValidGiveOneResult ==
    \A k, j \in 1..Len(tests) :
        ( /\ Len(tests) = 2
          /\ k # j
          /\ MissingFeature(tests[k])
          /\ PassesAll(tests[j])
          /\ pc \in {"returned", "done"} )
        => /\ ~Aborted
           /\ Len(results) = 1
           /\ results[1].name = tests[j].name
           /\ results[1].kpi = tests[j].kpi

C3_Witness ==
    /\ pc = "returned"
    /\ Len(tests) = 2
    /\ MissingFeature(tests[1])
    /\ PassesAll(tests[2])
    /\ Len(results) = 1

\* the arguments of the direct call
Arg == tests[1]

\* the rows of frame whose cell in column feature is value, by index label
Matching(frame, feature, value) ==
    {frame.rows[k].idx : k \in {j \in 1..Len(frame.rows) : frame.rows[j].v[feature] = value}}

\* C4: ab_segment raises KeyError (FeatureNotFound) whenever the feature is not
\* a column of the record set, whatever the two values, and returns no groups.
C4_MissingFeatureRaisesKeyError ==
    (pc = "called" /\ Arg.feature \notin df.columns)
        => ret.raised = "KeyError" /\ DOMAIN ret = {"raised"}

C4_Witness ==
    /\ pc = "called"
    /\ Arg.feature \notin df.columns
    /\ Len(df.rows) > 0
    /\ Arg.group_a # Arg.group_b
    /\ ret.raised = "KeyError"

\* C5 as stated: when the feature is a column, ab_segment always returns the
\* pair (group_a, group_b), an empty group included, and never raises.
C5_EmptyGroupIsReturned ==
    (pc = "called" /\ Arg.feature \in df.columns) => ret.raised = "none"

\* C5 as the code has it: when the feature is a column, ab_segment returns the
\* pair exactly when both values match at least one row, each group holding the
\* rows that match its value; a value that matches no row raises ValueError.
C5_EmptyGroupRaisesValueError ==
    (pc = "called" /\ Arg.feature \in df.columns) =>
        LET inA == Matching(df, Arg.feature, Arg.group_a)
            inB == Matching(df, Arg.feature, Arg.group_b)
        IN  IF inA = {} \/ inB = {}
            THEN ret.raised = "ValueError" /\ DOMAIN ret = {"raised"}
            ELSE /\ ret.raised = "none"
                 /\ Indexes(ret.df_a) = inA
                 /\ Indexes(ret.df_b) = inB

C5_Witness ==
    /\ pc = "called"
    /\ Arg.feature \in df.columns
    /\ Matching(df, Arg.feature, Arg.group_a) # {}
    /\ Matching(df, Arg.feature, Arg.group_b) = {}
    /\ ret.raised = "ValueError"

\* one of the two requested values of the specification has no row
ZeroRows(t) ==
    /\ FullKeys(t)
    /\ t.feature \in df.columns
    /\ \/ \A k \in 1..Len(df.rows) : df.rows[k].v[t.feature] # t.group_a
       \/ \A k \in 1..Len(df.rows) : df.rows[k].v[t.feature] # t.group_b

\* C6: run_test is only ever reached with two non-empty groups, and a
\* specification with a value that matches no row adds no result while the loop
\* goes on to the next specification.
C6_EmptySegmentSkipped ==
    /\ pc = "test" => Len(df_a.rows) > 0 /\ Len(df_b.rows) > 0
    /\ \A k \in 1..Len(tests) :
           ZeroRows(tests[k]) =>
               /\ ~Recorded(k)
               /\ \A r \in 1..Len(results) : results[r].name # tests[k].name
               /\ Processed(k) => (i > k /\ Logged(k, {"segmentation_failed"}))
               /\ (k < Len(tests) /\ i = k + 1) => pc # "returned"

C6_Witness ==
    /\ pc = "returned"
    /\ Len(tests) = 2
    /\ ZeroRows(tests[1])
    /\ HasResult(2)
    /\ Len(results) = 1

\* C7 as stated: the groups ab_segment returns never share a row, for every
\* pair of values it accepts.
C7_GroupsAlwaysDisjoint ==
    (pc = "called" /\ ret.raised = "none")
        => Indexes(ret.df_a) \cap Indexes(ret.df_b) = {}

\* C7 as the code has it: the groups share no row whenever the two requested
\* values differ; for equal values ab_segment returns the same rows twice.
C7_GroupsDisjointForDistinctValues ==
    (pc = "called" /\ ret.raised = "none") =>
        IF Arg.group_a # Arg.group_b
        THEN Indexes(ret.df_a) \cap Indexes(ret.df_b) = {}
        ELSE Indexes(ret.df_a) = Indexes(ret.df_b)

C7_Witness ==
    /\ pc = "called"
    /\ ret.raised = "none"
    /\ Arg.group_a # Arg.group_b
    /\ Len(ret.df_a.rows) + Len(ret.df_b.rows) = Len(df.rows)
    /\ Len(ret.df_a.rows) > 1

\* C8: under every test type and KPI, run_test returns the NaN pair without
\* calling scipy when a group has fewer than 30 rows, and groups of 30 rows or
\* more are never turned away for their size.
C8_SampleGateUniform ==
    pc = "called" =>
        /\ (Len(df_a.rows) < 30 \/ Len(df_b.rows) < 30) =>
               /\ ret.scipy = "none"
               /\ ret.statistic = NaN
               /\ ret.p_value = NaN
        /\ (Len(df_a.rows) >= 30 /\ Len(df_b.rows) >= 30) => ret.why # "small_sample"
        /\ ( /\ Arg.test \in {"chi2", "ttest", "mw_u"}
             /\ "TotalClaims" \in df.columns
             /\ Len(df_a.rows) < 30 \/ Len(df_b.rows) < 30 ) => ret.why = "small_sample"

C8_Witness ==
    /\ pc = "called"
    /\ Len(df_a.rows) = 30
    /\ Len(df_b.rows) = 30
    /\ Arg.test = "mw_u"
    /\ ret.why = "ok"
    /\ ret.p_value # NaN

\* C9: once run_tests has returned, a specification one of whose groups has
\* fewer than 30 rows has no record in the result list.
C9_InsufficientSampleHasNoResult ==
    pc = "returned" =>
        \A k \in 1..Len(tests) :
            ( /\ Segmentable(tests[k])
              /\ \/ RowsWith(df, tests[k].feature, tests[k].group_a) < 30
                 \/ RowsWith(df, tests[k].feature, tests[k].group_b) < 30 )
            => \A r \in 1..Len(results) : results[r].name # tests[k].name

\* the (kpi, test kind) pairs of the dispatch table that the code implements
DispatchTable ==
    {<<"frequency", "chi2">>}
        \cup ({"margin", "loss_ratio", "severity"} \X {"ttest", "mw_u"})

\* C10: a (kpi, test kind) pair outside the dispatch table never yields a
\* statistic: run_test fails, handing back the NaN pair.
C10_UnsupportedCombinationFails ==
    (pc = "called" /\ <<Arg.kpi, Arg.test>> \notin DispatchTable) =>
        /\ ret.statistic = NaN
        /\ ret.p_value = NaN

\* the dispatch table as the specification gives it: frequency with the
\* chi-square or the two-proportion z-test, each continuous KPI with Welch's
\* t-test and with Mann-Whitney U
SpecifiedDispatchTable ==
    ({"frequency"} \X {"chi2", "ztest"})
        \cup ({"margin", "loss_ratio", "severity"} \X {"ttest", "mw_u"})

\* C11: on groups that pass the 30-row gate, run_test turns away no (kpi, test
\* kind) pair of the specified dispatch table as an unsupported test type or an
\* unsupported KPI.
C11_DispatchTableAccepted ==
    ( /\ pc = "called"
      /\ <<Arg.kpi, Arg.test>> \in SpecifiedDispatchTable
      /\ Len(df_a.rows) >= 30
      /\ Len(df_b.rows) >= 30 )
    => ret.why \notin {"unsupported_test", "unsupported_kpi"}

\* the decision logged for test k, and "none" when its result was not logged
DecisionLogged(k) ==
    IF \E n \in 1..Len(log) : log[n].test = k /\ "decision" \in DOMAIN log[n]
    THEN (CHOOSE e \in {log[n] : n \in 1..Len(log)} :
              e.test = k /\ "decision" \in DOMAIN e).decision
    ELSE "none"

\* p_value < alpha on floats, written out: a NaN p-value is below nothing
StrictlyBelow(p_value, a) == p_value # NaN /\ p_value < a

\* C12: the decision is "Reject H0" exactly when the recorded p-value is
\* strictly below the recorded alpha and "Fail to Reject H0" otherwise, p equal
\* to alpha included; this holds of the decision run_tests logs for a result
\* and of the one write_markdown_summary writes for it, so the two agree.
C12_DecisionStrictAndConsistent ==
    /\ \A k \in 1..Len(tests) :
         (Recorded(k) /\ ResultAt(k) <= Len(results)) =>
            LET r == results[ResultAt(k)]
            IN  /\ r.alpha = alpha
                /\ DecisionLogged(k) =
                      (IF StrictlyBelow(r.p_value, r.alpha)
                       THEN "Reject H0" ELSE "Fail to Reject H0")
                /\ summary.written =>
                      summary.rows[ResultAt(k)].decision = DecisionLogged(k)
    /\ summary.written =>
         /\ Len(summary.rows) = Len(results)
         /\ \A j \in 1..Len(results) :
              /\ summary.rows[j].p_value = results[j].p_value
              /\ summary.rows[j].decision =
                    (IF StrictlyBelow(results[j].p_value, results[j].alpha)
                     THEN "Reject H0" ELSE "Fail to Reject H0")

C12_Witness ==
    /\ summary.written
    /\ Len(summary.rows) = 2
    /\ summary.rows[1].p_value = alpha
    /\ summary.rows[1].decision = "Fail to Reject H0"
    /\ summary.rows[2].p_value = 49
    /\ summary.rows[2].decision = "Reject H0"
    /\ DecisionLogged(1) = "Fail to Reject H0"
    /\ DecisionLogged(2) = "Reject H0"

\* the test specifications whose result run_tests has appended so far
RecordedSpecs == {k \in 1..Len(tests) : Recorded(k)}

\* one step of the result list: untouched, or one result for the current
\* specification put after the results already there
ResultListStep ==
    \/ results' = results
    \/ /\ pc = "test"
       /\ i' = i + 1
       /\ Len(results') = Len(results) + 1
       /\ SubSeq(results', 1, Len(results)) = results
       /\ results'[Len(results')].name = tests[i].name
       /\ results'[Len(results')].kpi = tests[i].kpi

\* C13: the result list holds at most one result per test specification, in
\* the order of the specifications, and only for specifications the loop has
\* passed; every step leaves the list as it is or appends exactly one result,
\* that of the current specification, so results are never changed or removed.
C13_ResultListAppendOnly ==
    /\ [](/\ Len(results) = Cardinality(RecordedSpecs)
          /\ Len(results) <= Len(tests)
          /\ \A k \in RecordedSpecs :
               /\ k < i
               /\ results[ResultAt(k)].name = tests[k].name
               /\ results[ResultAt(k)].kpi = tests[k].kpi)
    /\ [][ResultListStep]_vars

C13_Witness ==
    /\ pc = "returned"
    /\ Len(tests) = 2
    /\ Len(results) = 2
    /\ results[1].name = tests[1].name
    /\ results[2].name = tests[2].name
    /\ results[1].name # results[2].name

\* the positions of the report whose p-value is strictly below th
Below(report, th) ==
    {k \in 1..Len(report) :
        "p_value" \in DOMAIN report[k] /\ StrictlyBelow(report[k].p_value, th)}

\* C14: flag_imbalances returns exactly the rows of the report whose p-value is
\* strictly below the threshold (a p-value equal to it is not flagged), in the
\* order of the report; the threshold is 0.05 when none is given; the report
\* handed in is left as it was.
C14_FlagsStrictlyBelowThreshold ==
    /\ [](pc = "called" =>
            LET report == Arg.balance_df
                th == IF "threshold" \in DOMAIN Arg THEN Arg.threshold ELSE 50
                flagged == ret.returned
            IN  /\ Len(flagged) = Cardinality(Below(report, th))
                /\ \A k \in Below(report, th) :
                     flagged[Cardinality({j \in Below(report, th) : j <= k})] = report[k])
    /\ [][tests' = tests]_vars

C14_Witness ==
    /\ pc = "called"
    /\ "threshold" \notin DOMAIN Arg
    /\ Len(Arg.balance_df) = 3
    /\ Arg.balance_df[1].p_value = 49
    /\ Arg.balance_df[2].p_value = 50
    /\ Arg.balance_df[3].p_value = 49
    /\ Arg.balance_df[1].covariate # Arg.balance_df[3].covariate
    /\ ret.returned = <<Arg.balance_df[1], Arg.balance_df[3]>>

\* the covariate is a column of both groups
InBothGroups(cov) == cov \in df_a.columns /\ cov \in df_b.columns

\* the strictly increasing maps from the rows of a report to list positions
Embeddings(report, covariates) ==
    { f \in [1..Len(report) -> 1..Len(covariates)] :
        /\ \A j \in 1..Len(report) : report[j].covariate = covariates[f[j]]
        /\ \A j \in 1..Len(report) : \A l \in 1..Len(report) : j < l => f[j] < f[l] }

\* the covariate is a column of numbers of the record set the groups come from
HoldsNumbers(cov) ==
    /\ cov \in NumericColumns
    /\ \E k \in 1..Len(df.rows) : cov \in DOMAIN df.rows[k].v

\* C15: ensure_balance returns a report whatever columns are missing: there is
\* no row for a covariate missing in either group, every listed numeric
\* covariate that both groups have is still tested, whatever else is missing,
\* and the rows follow the covariate list, at most one row per entry.
C15_MissingCovariateSkipped ==
    pc = "called" =>
        LET covariates == Arg.covariates
            report == ret.returned
        IN  /\ \A j \in 1..Len(report) : InBothGroups(report[j].covariate)
            /\ \A k \in 1..Len(covariates) :
                 (InBothGroups(covariates[k]) /\ HoldsNumbers(covariates[k])) =>
                     \E j \in 1..Len(report) :
                        /\ report[j].covariate = covariates[k]
                        /\ report[j].test_type = "t-test"
            /\ Len(report) <= Len(covariates)
            /\ Embeddings(report, covariates) # {}

C15_Witness ==
    /\ pc = "called"
    /\ Arg.covariates = <<"Age", "TotalPremium">>
    /\ "Age" \in df_a.columns
    /\ "Age" \notin df_b.columns
    /\ Len(df_a.rows) > 0
    /\ Len(df_b.rows) > 0
    /\ Len(ret.returned) = 1
    /\ ret.returned[1].covariate = "TotalPremium"
    /\ ret.returned[1].p_value = 50

\* a specification with covariates that is otherwise valid on a valid record set
ValidWithCovariates(t) ==
    /\ {"TotalClaims", "TotalPremium"} \subseteq df.columns
    /\ Segmentable(t)
    /\ "covariates" \in DOMAIN t
    /\ t.covariates # <<>>
    /\ t.kpi \in {"frequency", "severity", "margin", "loss_ratio"}

AbsentCovariates(t) == {k \in 1..Len(t.covariates) : t.covariates[k] \notin df.columns}

\* C16 as stated: a specification that lists a covariate absent from the record
\* set never gets a result.
C16_AbsentCovariateAlwaysFatal ==
    \A k \in 1..Len(tests) :
        (ValidWithCovariates(tests[k]) /\ AbsentCovariates(tests[k]) # {})
            => ~Recorded(k)

\* C16 as the code has it: an absent covariate is skipped by the balance check.
\* A specification all of whose covariates are absent is skipped as a failed
\* balance check, gets no result, and the loop goes on to the next one; a
\* specification that lists an absent covariate next to a numeric column of the
\* record set is never skipped for a failed balance check: it gets its result
\* unless that numeric covariate is found imbalanced.
C16_AbsentCovariateFatalWhenNoneTestable ==
    \A k \in 1..Len(tests) :
        ValidWithCovariates(tests[k]) =>
            /\ AbsentCovariates(tests[k]) = 1..Len(tests[k].covariates) =>
                  /\ ~Recorded(k)
                  /\ i > k => Logged(k, {"balance_check_failed"})
                  /\ (k < Len(tests) /\ i = k + 1) =>
                        (pc # "returned" /\ (pc = "done" => Processed(k + 1)))
                  /\ ~(Aborted /\ i = k)
            /\ ( /\ AbsentCovariates(tests[k]) # {}
                 /\ \E c \in 1..Len(tests[k].covariates) :
                       tests[k].covariates[c] \in NumericColumns \cap df.columns ) =>
                  /\ ~Logged(k, {"balance_check_failed"})
                  /\ i > k => (HasResult(k) \/ Logged(k, {"imbalance_detected"}))

C16_Witness ==
    /\ pc = "returned"
    /\ Len(tests) = 2
    /\ ValidWithCovariates(tests[1])
    /\ tests[1].covariates = <<"Region">>
    /\ Logged(1, {"balance_check_failed"})
    /\ ValidWithCovariates(tests[2])
    /\ tests[2].covariates = <<"Region", "Age">>
    /\ HasResult(2)
    /\ Len(results) = 1

\* the distinct values of a covariate over the rows of the two groups together
UnionCategories(cov) ==
    {df_a.rows[k].v[cov] : k \in 1..Len(df_a.rows)}
        \cup {df_b.rows[k].v[cov] : k \in 1..Len(df_b.rows)}

\* C17: on the two non-empty groups ab_segment selects, a listed categorical
\* covariate that both groups have gets a chi-squared row in the balance report
\* exactly when at least two distinct categories are observed over the two
\* groups together.
C17_CategoricalCovariateTested ==
    (pc = "called" /\ Len(df_a.rows) > 0 /\ Len(df_b.rows) > 0) =>
        \A k \in 1..Len(Arg.covariates) :
            LET cov == Arg.covariates[k]
            IN  (InBothGroups(cov) /\ cov \notin NumericColumns) =>
                    ( Cardinality(UnionCategories(cov)) >= 2
                      <=> \E j \in 1..Len(ret.returned) :
                             /\ ret.returned[j].covariate = cov
                             /\ ret.returned[j].test_type = "chi-squared" )

\* the rows of a record set whose premium is positive, as loss-ratio divisions
PositivePremiumRatios(frame) ==
    LET keep == {k \in 1..Len(frame.rows) : frame.rows[k].v["TotalPremium"] > 0}
    IN  [j \in 1..Cardinality(keep) |->
           LET k == CHOOSE k \in keep : Cardinality({l \in keep : l <= k}) = j
           IN  [num |-> frame.rows[k].v["TotalClaims"],
                den |-> frame.rows[k].v["TotalPremium"]]]

\* C18: no loss ratio is computed by dividing by a premium that is zero or
\* negative.  calculate_loss_ratio divides on the rows with a positive premium
\* only; ttest and mann_whitney_u on the loss_ratio KPI hand scipy ratios whose
\* premiums are all positive, and no ratios at all when a group holds a premium
\* that is not; a premium <= 0 ends in no exception.
C18_NoDivisionByNonPositivePremium ==
    /\ (pc = "metric_called" /\ Arg.metric = "loss_ratio") =>
          /\ \A j \in 1..Len(ret.of) : ret.of[j].den > 0
          /\ {"TotalClaims", "TotalPremium"} \subseteq df.columns =>
                /\ ret.of = PositivePremiumRatios(df)
                /\ ret.nan <=> PositivePremiumRatios(df) = <<>>
    /\ (pc = "called" /\ Arg.kpi = "loss_ratio" /\ Arg.test \in {"ttest", "mw_u"}) =>
          /\ ret.why # "exception"
          /\ "data_a" \in DOMAIN ret =>
                /\ \A j \in 1..Len(ret.data_a) : ret.data_a[j].den > 0
                /\ \A j \in 1..Len(ret.data_b) : ret.data_b[j].den > 0
          /\ ( /\ {"TotalClaims", "TotalPremium"} \subseteq df.columns
               /\ \E k \in 1..Len(df.rows) : df.rows[k].v["TotalPremium"] <= 0 ) =>
                /\ "data_a" \notin DOMAIN ret
                /\ ret.scipy = "none"

C18_Witness ==
    /\ pc = "metric_called"
    /\ Arg.metric = "loss_ratio"
    /\ {"TotalClaims", "TotalPremium"} \subseteq df.columns
    /\ Len(df.rows) = 3
    /\ df.rows[1].v["TotalPremium"] = 0
    /\ df.rows[2].v["TotalPremium"] = 200
    /\ df.rows[2].v["TotalClaims"] = 100
    /\ df.rows[3].v["TotalPremium"] = -50
    /\ ~ret.nan
    /\ ret.of = <<[num |-> 100, den |-> 200]>>

\* a direct call of a loss_ratio test the 30-row gate lets through, on groups
\* that have the premium and claims columns
LossRatioTestCalled ==
    /\ pc = "called"
    /\ Arg.kpi = "loss_ratio"
    /\ Arg.test \in {"ttest", "mw_u"}
    /\ Len(df_a.rows) >= 30
    /\ Len(df_b.rows) >= 30
    /\ {"TotalClaims", "TotalPremium"} \subseteq df.columns

BadPremiumRows(frame) ==
    {k \in 1..Len(frame.rows) : frame.rows[k].v["TotalPremium"] <= 0}

\* C19 as stated: when some rows of the groups have a premium <= 0, the
\* loss_ratio test drops those rows and runs on the remaining rows of each group.
C19_BadPremiumRowsDropped ==
    (LossRatioTestCalled /\ BadPremiumRows(df_a) \cup BadPremiumRows(df_b) # {}) =>
        /\ ret.why = "ok"
        /\ "data_a" \in DOMAIN ret
        /\ ret.data_a = PositivePremiumRatios(df_a)
        /\ ret.data_b = PositivePremiumRatios(df_b)

\* C19 as the code has it: one premium <= 0 in either group makes the whole
\* loss_ratio test undefined: run_test returns the NaN pair without calling
\* scipy and no row is tested; when every premium is positive the test runs on
\* the ratios of all the rows of each group.
C19_BadPremiumVoidsWholeTest ==
    LossRatioTestCalled =>
        IF BadPremiumRows(df_a) \cup BadPremiumRows(df_b) # {}
        THEN /\ ret.statistic = NaN
             /\ ret.p_value = NaN
             /\ ret.scipy = "none"
             /\ "data_a" \notin DOMAIN ret
        ELSE /\ ret.why = "ok"
             /\ ret.scipy # "none"
             /\ Len(ret.data_a) = Len(df_a.rows)
             /\ Len(ret.data_b) = Len(df_b.rows)
             /\ ret.data_a = PositivePremiumRatios(df_a)
             /\ ret.data_b = PositivePremiumRatios(df_b)

C19_Witness ==
    /\ LossRatioTestCalled
    /\ Arg.test = "mw_u"
    /\ BadPremiumRows(df_a) # {}
    /\ \E k \in BadPremiumRows(df_a) : df_a.rows[k].v["TotalPremium"] = 0
    /\ \E k \in BadPremiumRows(df_b) : df_b.rows[k].v["TotalPremium"] < 0
    /\ Len(PositivePremiumRatios(df_a)) >= 20
    /\ Len(PositivePremiumRatios(df_b)) >= 20
    /\ ret.why = "bad_premium"
    /\ ret.p_value = NaN

\* x + y in float64, as `margin + claims` adds them
FAdd(x, y) == Rounded(ExactAdd(x, y))

\* the premium and the claims of row k, as the columns hold them
PremiumOf(frame, k) == AsFloat64(frame.rows[k].v["TotalPremium"])
ClaimsOf(frame, k) == AsFloat64(frame.rows[k].v["TotalClaims"])

\* margins[k] + claims == premium on row k
RoundTripsAt(margins, frame, k) ==
    FAdd(margins[k], ClaimsOf(frame, k)) = PremiumOf(frame, k)

\* margins[k] + claims == premium on every row of the record set
RoundTrips(margins, frame) ==
    /\ Len(margins) = Len(frame.rows)
    /\ \A k \in 1..Len(frame.rows) : RoundTripsAt(margins, frame, k)

\* both amounts of row k are whole numbers
WholeAmounts(frame, k) ==
    /\ frame.rows[k].v["TotalPremium"] % 100 = 0
    /\ frame.rows[k].v["TotalClaims"] % 100 = 0

\* premium - claims of row k, not rounded, is a float64
ExactDifference(frame, k) ==
    Len(ExactAdd(PremiumOf(frame, k), Negated(ClaimsOf(frame, k))).m) <= Mantissa

\* the least t with |x| < 2^t, for x # 0
Top(x) == Len(x.m) + x.e

\* |x - y| < 2^(-50) * the larger of |p| and |c|
Within(x, y, p, c) ==
    LET off == ExactAdd(x, Negated(y))
        top == IF p = Zero \/ (c # Zero /\ Top(p) < Top(c)) THEN Top(c) ELSE Top(p)
    IN  off = Zero \/ (~(p = Zero /\ c = Zero) /\ Top(off) <= top - (Mantissa - 2))

\* one margin per row, in row order; margin + claims is the premium exactly
\* where premium - claims is a float64, whole amounts included, and within
\* rounding of it everywhere
RoundTripsToRounding(margins, frame) ==
    /\ Len(margins) = Len(frame.rows)
    /\ \A k \in 1..Len(frame.rows) :
          /\ WholeAmounts(frame, k) => ExactDifference(frame, k)
          /\ ExactDifference(frame, k) => RoundTripsAt(margins, frame, k)
          /\ Within(FAdd(margins[k], ClaimsOf(frame, k)), PremiumOf(frame, k),
                    PremiumOf(frame, k), ClaimsOf(frame, k))

\* C20 as stated: the margin of every row satisfies margin + claims == premium,
\* in the per-row margins calculate_margin averages and in the two samples
\* ttest prepares for the margin KPI.
C20_MarginRoundTripExact ==
    /\ ( /\ pc = "metric_called"
         /\ Arg.metric = "margin"
         /\ {"TotalClaims", "TotalPremium"} \subseteq df.columns
         /\ ~ret.nan ) => RoundTrips(ret.of, df)
    /\ ( /\ pc = "called"
         /\ Arg.test = "ttest"
         /\ Arg.kpi = "margin"
         /\ {"TotalClaims", "TotalPremium"} \subseteq df.columns
         /\ Len(df_a.rows) >= 30
         /\ Len(df_b.rows) >= 30 ) =>
            /\ RoundTrips(ret.data_a, df_a)
            /\ RoundTrips(ret.data_b, df_b)

\* C20 as the code has it: every row of the record set has its margin, the
\* float64 difference premium - claims, in the per-row margins calculate_margin
\* averages and in the two samples ttest prepares for the margin KPI;
\* margin + claims == premium holds exactly on the rows whose difference is a
\* float64, the rows of whole amounts among them, and on every other row
\* margin + claims is within 2^(-50) times the larger of |premium| and |claims|
\* of the premium.
C20_MarginRoundTrip ==
    /\ ( /\ pc = "metric_called"
         /\ Arg.metric = "margin"
         /\ {"TotalClaims", "TotalPremium"} \subseteq df.columns ) =>
            /\ ret.nan <=> Len(df.rows) = 0
            /\ ~ret.nan => RoundTripsToRounding(ret.of, df)
    /\ ( /\ pc = "called"
         /\ Arg.test = "ttest"
         /\ Arg.kpi = "margin"
         /\ {"TotalClaims", "TotalPremium"} \subseteq df.columns
         /\ Len(df_a.rows) >= 30
         /\ Len(df_b.rows) >= 30 ) =>
            /\ ret.why = "ok"
            /\ RoundTripsToRounding(ret.data_a, df_a)
            /\ RoundTripsToRounding(ret.data_b, df_b)

\* premium 2.00, claims 1.00: the margin is 1.0 and margin + claims is 2.0;
\* premium 0.10, claims 1.00: margin + claims is not 0.1
C20_Witness ==
    /\ pc = "metric_called"
    /\ Arg.metric = "margin"
    /\ {"TotalClaims", "TotalPremium"} \subseteq df.columns
    /\ Len(df.rows) = 2
    /\ df.rows[1].v["TotalPremium"] = 200
    /\ df.rows[1].v["TotalClaims"] = 100
    /\ df.rows[2].v["TotalPremium"] = 10
    /\ df.rows[2].v["TotalClaims"] = 100
    /\ ~ret.nan
    /\ ret.of[1] = AsFloat64(100)
    /\ RoundTripsAt(ret.of, df, 1)
    /\ ret.of[2].neg
    /\ ~RoundTripsAt(ret.of, df, 2)

\* the number of rows of a record set with claims > 0
RowsWithClaim(frame) ==
    Cardinality({k \in 1..Len(frame.rows) : frame.rows[k].v["TotalClaims"] > 0})

\* C21: the claim indicator is 1 exactly on the rows with claims > 0 and 0 on
\* the others, claims == 0 included, in the indicator calculate_claim_frequency
\* averages; the contingency counts chi2_test hands to scipy count the same
\* indicator: per group, the rows without and with claims > 0.
C21_HasClaimIffPositiveClaims ==
    /\ ( /\ pc = "metric_called"
         /\ Arg.metric = "frequency"
         /\ "TotalClaims" \in df.columns ) =>
            /\ ret.nan <=> Len(df.rows) = 0
            /\ ~ret.nan =>
                 /\ Len(ret.of) = Len(df.rows)
                 /\ \A k \in 1..Len(df.rows) :
                      /\ ret.of[k] \in {0, 1}
                      /\ ret.of[k] = 1 <=> df.rows[k].v["TotalClaims"] > 0
    /\ (pc = "called" /\ Arg.test = "chi2" /\ ret.why = "ok") =>
            /\ ret.data_a = <<Len(df_a.rows) - RowsWithClaim(df_a), RowsWithClaim(df_a)>>
            /\ ret.data_b = <<Len(df_b.rows) - RowsWithClaim(df_b), RowsWithClaim(df_b)>>
            /\ ClaimIndicator(df_a) = has_claim(df_a)
            /\ ClaimIndicator(df_b) = has_claim(df_b)
            /\ ret.data_a[2] = Cardinality({k \in 1..Len(df_a.rows) : has_claim(df_a)[k] = 1})
            /\ ret.data_b[2] = Cardinality({k \in 1..Len(df_b.rows) : has_claim(df_b)[k] = 1})

C21_Witness ==
    /\ pc = "metric_called"
    /\ Arg.metric = "frequency"
    /\ "TotalClaims" \in df.columns
    /\ Len(df.rows) = 3
    /\ df.rows[1].v["TotalClaims"] = 0
    /\ df.rows[2].v["TotalClaims"] = 100
    /\ df.rows[3].v["TotalClaims"] = 0
    /\ ret.of = <<0, 1, 0>>

\* C22: no call of ab_segment, ensure_balance, flag_imbalances, a calculate_*
\* metric or run_test changes what it was handed: the source record set, the
\* two group frames and the test specification (with the balance report it may
\* hold) are the same after the call as before it.  A call that leaves its
\* inputs as they were leaves them so for the next call, hence for any sequence.
C22_InputsNeverMutated ==
    [][df' = df /\ df_a' = df_a /\ df_b' = df_b /\ tests' = tests]_vars

C22_Witness ==
    /\ pc = "metric_called"
    /\ Arg.metric = "margin"
    /\ Len(df.rows) = 3
    /\ {"TotalClaims", "TotalPremium"} \subseteq df.columns
    /\ ~ret.nan
    /\ Len(ret.of) = 3
    /\ "kpi" \notin df.columns

\* the columns a metric reads
NeededColumns(metric) ==
    IF metric \in {"loss_ratio", "margin"}
    THEN {"TotalClaims", "TotalPremium"}
    ELSE {"TotalClaims"}

\* C23 as stated: a metric called on a record set without the premium or the
\* claims column returns the record set it was handed.
C23_MissingColumnReturnsInput ==
    (pc = "metric_called" /\ {"TotalClaims", "TotalPremium"} \ df.columns # {}) =>
        /\ "rows" \in DOMAIN ret
        /\ ret.rows = df.rows
        /\ ret.columns = df.columns

\* C23 as the code has it: a metric called on a record set that lacks a column
\* it reads returns NaN after a warning, not its input, and raises nothing;
\* the frequency and the severity read the claims only, so without the premium
\* column they are computed as usual.
C23_MissingColumnGivesNaN ==
    pc = "metric_called" =>
        /\ DOMAIN ret = {"nan", "why", "of"}
        /\ NeededColumns(Arg.metric) \ df.columns # {} =>
              /\ ret.nan
              /\ ret.why = "missing_column"
              /\ ret.of = <<>>
        /\ ( /\ Arg.metric = "frequency"
             /\ "TotalClaims" \in df.columns
             /\ Len(df.rows) > 0 ) => ~ret.nan
        /\ ret.why # "exception"

C23_Witness ==
    /\ pc = "metric_called"
    /\ Arg.metric = "margin"
    /\ "TotalPremium" \notin df.columns
    /\ "TotalClaims" \in df.columns
    /\ Len(df.rows) = 2
    /\ ret.nan
    /\ ret.why = "missing_column"

\* the columns run_test needs for a KPI
RequiredColumns(kpi) ==
    IF kpi \in {"margin", "loss_ratio"}
    THEN {"TotalClaims", "TotalPremium"}
    ELSE {"TotalClaims"}

\* C24: run_test raises nothing and always returns a (statistic, p_value) pair;
\* the pair is (NaN, NaN) whenever the test type is unknown, the KPI is not one
\* the test supports, a required column is missing, a group has fewer than 30
\* rows, or the underlying test failed.
C24_RunTestTotalAndNaNOnFailure ==
    pc = "called" =>
        /\ {"statistic", "p_value"} \subseteq DOMAIN ret
        /\ ( \/ Arg.test \notin {"chi2", "ttest", "mw_u"}
             \/ <<Arg.kpi, Arg.test>> \notin DispatchTable
             \/ RequiredColumns(Arg.kpi) \ df.columns # {}
             \/ Len(df_a.rows) < 30
             \/ Len(df_b.rows) < 30
             \/ ret.why \in {"scipy_failed", "exception"} )
           => (ret.statistic = NaN /\ ret.p_value = NaN)

(***************************************************************************)
(* src/data_processing/data_cleaning.py: DataCleaner.clean_data.  A cell   *)
(* of a raw frame is a record [kind, n, s]: a number, a string, a          *)
(* timestamp, a boolean or a missing value (None, NaN and NaT alike).  A   *)
(* raw frame carries the dtype of each of its columns.                     *)
(***************************************************************************)
MaxCleanRows == 2

Num(n) == [kind |-> "num", n |-> n, s |-> ""]
Str(s) == [kind |-> "str", n |-> 0, s |-> s]
Date(s) == [kind |-> "date", n |-> 0, s |-> s]
Bool(b) == [kind |-> "bool", n |-> IF b THEN 1 ELSE 0, s |-> ""]
NA == [kind |-> "na", n |-> 0, s |-> ""]

RawFrame(cols, dtypes, rows) == [columns |-> cols, dtypes |-> dtypes, rows |-> rows]

\* the strings pd.to_datetime parses
ParseableDates == {"2023-01", "2023-02"}

\* str.lower() on the strings of the frames
Lower(s) ==
    CASE s = "Yes" -> "yes"
      [] s = "No" -> "no"
      [] s = "Male" -> "male"
      [] OTHER -> s

\* Python's order of the strings of the frames, smallest first
StringOrder == <<"2023-01", "2023-02", "Male", "No", "Yes", "not a date", "unknown">>

\* the position of a cell in the sorted values of its column
CellRank(cell) ==
    IF cell.kind = "str"
    THEN CHOOSE k \in 1..Len(StringOrder) : StringOrder[k] = cell.s
    ELSE cell.n

\* the cells of column c, in row order
ColumnCells(frame, c) == [k \in 1..Len(frame.rows) |-> frame.rows[k].v[c]]

\* frame with the cells of column c replaced and its dtype set
WithColumn(frame, c, cells, dtype) ==
    RawFrame(frame.columns,
             [frame.dtypes EXCEPT ![c] = dtype],
             [k \in 1..Len(frame.rows) |->
                [idx |-> frame.rows[k].idx,
                 v |-> [frame.rows[k].v EXCEPT ![c] = cells[k]]]])

\* pd.to_datetime(errors="coerce") on one cell
ToDatetime(cell) ==
    CASE cell.kind = "date" -> cell
      [] cell.kind = "str" /\ cell.s \in ParseableDates -> Date(cell.s)
      [] OTHER -> NA

ConvertDates(frame) ==
    IF "TransactionMonth" \in frame.columns
    THEN WithColumn(frame, "TransactionMonth",
                    [k \in 1..Len(frame.rows) |->
                       ToDatetime(frame.rows[k].v["TransactionMonth"])],
                    "datetime")
    ELSE frame

\* an object column all of whose strings are yes/no/true/false
BoolLike(frame, c) ==
    /\ frame.dtypes[c] = "object"
    /\ \A k \in 1..Len(frame.rows) :
          frame.rows[k].v[c].kind = "str" =>
              Lower(frame.rows[k].v[c].s) \in {"yes", "no", "true", "false"}

\* .str.lower().map({...}) on one cell
MapBool(cell) ==
    IF cell.kind = "str"
    THEN Bool(Lower(cell.s) \in {"yes", "true"})
    ELSE NA

RECURSIVE ConvertBools(_, _)
ConvertBools(frame, cols) ==
    IF cols = {} THEN frame
    ELSE LET c == CHOOSE x \in cols : TRUE
             cells == [k \in 1..Len(frame.rows) |-> MapBool(frame.rows[k].v[c])]
             dtype == IF \A k \in 1..Len(frame.rows) : cells[k].kind = "bool"
                      THEN "bool" ELSE "object"
         IN  ConvertBools(WithColumn(frame, c, cells, dtype), cols \ {c})

\* the frames hold no CapitalOutstanding column, so the numeric-string step of
\* lines 112-118 converts nothing
_standardise_types(frame) ==
    LET dated == ConvertDates(frame)
        bool_like_cols == {c \in dated.columns : BoolLike(dated, c)}
    IN  ConvertBools(dated, bool_like_cols)

\* the rows of column c that hold a value
Present(frame, c) == {k \in 1..Len(frame.rows) : frame.rows[k].v[c].kind # "na"}

\* the j-th smallest number of column c
KthNumber(frame, c, j) ==
    LET P == Present(frame, c)
    IN  CHOOSE x \in {frame.rows[k].v[c].n : k \in P} :
           /\ Cardinality({k \in P : frame.rows[k].v[c].n < x}) < j
           /\ Cardinality({k \in P : frame.rows[k].v[c].n <= x}) >= j

\* Series.median(): the numbers of the frames are even, so the mean of the two
\* middle values is exact
Median(frame, c) ==
    LET n == Cardinality(Present(frame, c))
    IN  IF n % 2 = 1
        THEN KthNumber(frame, c, (n + 1) \div 2)
        ELSE (KthNumber(frame, c, n \div 2) + KthNumber(frame, c, n \div 2 + 1)) \div 2

\* the dtype pandas infers for the values of an object column
InferDtype(cells) ==
    IF cells # <<>> /\ \A k \in DOMAIN cells : cells[k].kind = "bool" THEN "bool"
    ELSE IF cells # <<>> /\ \A k \in DOMAIN cells : cells[k].kind = "num" THEN "numeric"
    ELSE "object"

\* fillna of column c with one value; pandas infers the dtype of an object
\* column again once it is filled, so a column of True/NaN becomes bool
FillColumn(frame, c, value) ==
    LET cells == [k \in 1..Len(frame.rows) |->
                    IF frame.rows[k].v[c].kind = "na" THEN value ELSE frame.rows[k].v[c]]
    IN  WithColumn(frame, c, cells,
                   IF frame.dtypes[c] = "object" THEN InferDtype(cells)
                   ELSE frame.dtypes[c])

RECURSIVE FillNumeric(_, _)
FillNumeric(frame, cols) ==
    IF cols = {} THEN frame
    ELSE LET c == CHOOSE x \in cols : TRUE
         IN  FillNumeric(IF Present(frame, c) = {}
                         THEN frame
                         ELSE FillColumn(frame, c, Num(Median(frame, c))),
                         cols \ {c})

\* Series.mode().iloc[0]: the most frequent value, the smallest of them on a tie
Mode(frame, c) ==
    LET P == Present(frame, c)
        Count(k) == Cardinality({j \in P : frame.rows[j].v[c] = frame.rows[k].v[c]})
        top == {k \in P : \A j \in P : Count(j) <= Count(k)}
        first == CHOOSE k \in top :
                    \A j \in top : CellRank(frame.rows[k].v[c]) <= CellRank(frame.rows[j].v[c])
    IN  frame.rows[first].v[c]

\* the categorical columns that hold a missing value
Incomplete(frame, cols) ==
    {c \in cols : \E k \in 1..Len(frame.rows) : frame.rows[k].v[c].kind = "na"}

RECURSIVE FillCategorical(_, _)
FillCategorical(frame, cols) ==
    IF cols = {} THEN frame
    ELSE LET c == CHOOSE x \in cols : TRUE
         IN  FillCategorical(FillColumn(frame, c, Mode(frame, c)), cols \ {c})

\* lines 120-143.  fillna(inplace=True) on self.df[col] reaches the frame only
\* when pandas does not run copy-on-write; mode() of a column with no value
\* is empty and iloc[0] raises IndexError.  A bool column holds no missing
\* value, so its fillna(False) changes nothing.
_impute_missing(frame, copy_on_write) ==
    LET numeric_cols == {c \in frame.columns : frame.dtypes[c] = "numeric"}
        cat_cols == {c \in frame.columns : frame.dtypes[c] = "object"}
        filled == FillNumeric(frame, numeric_cols)
        todo == Incomplete(filled, cat_cols)
    IN  IF \E c \in todo : Present(filled, c) = {}
        THEN [raised |-> TRUE, frame |-> filled]
        ELSE [raised |-> FALSE,
              frame |-> IF copy_on_write THEN filled ELSE FillCategorical(filled, todo)]

\* self.df[self.df['TotalPremium'] > 0]
PositivePremium(frame) ==
    IF "TotalPremium" \in frame.columns
    THEN RawFrame(frame.columns, frame.dtypes,
                  SelectSeq(frame.rows,
                            LAMBDA r : r.v["TotalPremium"].kind = "num"
                                       /\ r.v["TotalPremium"].n > 0))
    ELSE frame

\* pd.to_numeric(errors="coerce") on one cell: none of the strings of the
\* frames is a number
ToNumeric(cell) ==
    CASE cell.kind = "num" -> cell
      [] cell.kind = "bool" -> Num(cell.n)
      [] OTHER -> NA

RECURSIVE CoerceCovariates(_, _)
CoerceCovariates(frame, cols) ==
    IF cols = {} THEN frame
    ELSE LET c == CHOOSE x \in cols : TRUE
         IN  CoerceCovariates(
                 IF frame.dtypes[c] = "object"
                 THEN WithColumn(frame, c,
                                 [k \in 1..Len(frame.rows) |-> ToNumeric(frame.rows[k].v[c])],
                                 "numeric")
                 ELSE frame,
                 cols \ {c})

_handle_specific_issues(frame) ==
    LET kept == PositivePremium(frame)
        present_covariates == kept.columns \cap {"Age", "PlanType"}
    IN  CoerceCovariates(kept, present_covariates)

\* clean_data works on a deep copy and returns it, or raises
clean_data(frame, copy_on_write) ==
    LET imputed == _impute_missing(_standardise_types(frame), copy_on_write)
    IN  IF imputed.raised
        THEN [raised |-> TRUE, frame |-> imputed.frame]
        ELSE [raised |-> FALSE, frame |-> _handle_specific_issues(imputed.frame)]

\* the raw values a column of the input can hold
RawCells(c) ==
    CASE c = "TransactionMonth" -> {Str("2023-01"), Str("not a date")}
      [] c = "TotalPremium" -> {Num(200), Num(0), NA}
      [] c = "Age" -> {Num(30), Str("unknown")}
      [] c = "Gender" -> {Str("Male"), Str("Yes"), NA}

AllRawCells == UNION {RawCells(c) : c \in {"TransactionMonth", "TotalPremium", "Age", "Gender"}}

CleanColumnSets ==
    { {"TransactionMonth", "TotalPremium", "Age", "Gender"},
      {"TransactionMonth", "Age", "Gender"},
      {"TotalPremium", "Gender"} }

\* the dtype pandas gives a column of these raw values
RawDtype(c, cells) ==
    IF c = "TotalPremium" THEN "numeric"
    ELSE IF c = "Age" /\ \A k \in DOMAIN cells : cells[k].kind = "num" THEN "numeric"
    ELSE "object"

RawRows(cols) == {v \in [cols -> AllRawCells] : \A c \in cols : v[c] \in RawCells(c)}

\* the frame of the rows vs over the columns cols
RawFrameOf(cols, vs) ==
    RawFrame(cols,
             [c \in cols |-> RawDtype(c, [k \in DOMAIN vs |-> vs[k][c]])],
             [k \in DOMAIN vs |-> [idx |-> k, v |-> vs[k]]])

InitClean ==
    /\ \E cols \in CleanColumnSets : \E n \in 1..MaxCleanRows :
          \E vs \in [1..n -> RawRows(cols)] : df = RawFrameOf(cols, vs)
    /\ tests \in { <<[copy_on_write |-> b]>> : b \in BOOLEAN }
    /\ alpha = 50
    /\ pc = "call_clean_data"
    /\ i = 1
    /\ df_a = NoFrame
    /\ df_b = NoFrame
    /\ results = <<>>
    /\ log = <<>>
    /\ summary = NotWritten
    /\ ret = NoRet

CallClean ==
    /\ pc = "call_clean_data"
    /\ ret' = clean_data(df, tests[1].copy_on_write)
    /\ pc' = "cleaned"
    /\ UNCHANGED <<df, tests, alpha, i, df_a, df_b, results, log, summary>>

SpecClean == InitClean /\ [][CallClean]_vars

\* a cleaned frame was returned
Cleaned == pc = "cleaned" /\ ~ret.raised

\* some cell of the frame is missing
HasMissing(frame) ==
    \E k \in 1..Len(frame.rows) : \E c \in frame.columns : frame.rows[k].v[c].kind = "na"

\* C25: clean_data returns, for every input frame, a frame with no missing
\* value in any column.
C25_CleanedFrameComplete ==
    pc = "cleaned" => (~ret.raised /\ ~HasMissing(ret.frame))

\* the input row a cleaned row came from
InputRow(r) == df.rows[CHOOSE k \in 1..Len(df.rows) : df.rows[k].idx = r.idx]

\* C26: no row of the cleaned frame has a non-positive TotalPremium, and none
\* comes from an input row whose TransactionMonth does not parse as a date.
C26_InvalidRowsDropped ==
    Cleaned =>
        \A k \in 1..Len(ret.frame.rows) :
            /\ "TotalPremium" \in df.columns =>
                   /\ ret.frame.rows[k].v["TotalPremium"].kind = "num"
                   /\ ret.frame.rows[k].v["TotalPremium"].n > 0
            /\ "TransactionMonth" \in df.columns =>
                   InputRow(ret.frame.rows[k]).v["TransactionMonth"].s \in ParseableDates

\* df_a and df_b are the groups ab_segment returns for test k
SegmentationSucceeded(k) ==
    /\ {"feature", "group_a", "group_b"} \subseteq DOMAIN tests[k]
    /\ LET seg == ab_segment(df, tests[k].feature, tests[k].group_a, tests[k].group_b)
       IN  /\ seg.raised = "none"
           /\ df_a = seg.df_a
           /\ df_b = seg.df_b

\* some outcome of the statistical tests lets the balance check of test k pass
BalanceCanPass(k) ==
    \/ Covariates(tests[k]) = <<>>
    \/ \E ps \in BalanceOracles(df_a, df_b, Covariates(tests[k])) :
          LET balance_df == ensure_balance(df_a, df_b, Covariates(tests[k]), ps)
          IN  /\ ~BalanceCheckFailed(balance_df)
              /\ flag_imbalances(balance_df, BalanceThreshold) = <<>>

\* the loop of run_tests is at test k
InLoop == pc \in {"loop", "balance", "kpi", "test"}

\* C27: the specs are processed one at a time in the order segment, balance
\* check, dispatch, record: a result is appended only for the current spec,
\* after its segmentation succeeded and its balance check passed, and the loop
\* moves to spec i+1 only once spec i has left a result or a skip in the log.
C27_OneSpecAtATimeInOrder ==
    [][ /\ (results' # results /\ pc # "start") =>
              /\ pc = "test"
              /\ SegmentationSucceeded(i)
              /\ BalanceCanPass(i)
              /\ ~Logged(i, SkipEvents)
              /\ Len(results') = Len(results) + 1
              /\ results'[Len(results')].name = tests[i].name
        /\ (pc' = "balance" /\ pc # "balance") => (pc = "loop" /\ i' = i)
        /\ (pc' = "kpi" /\ pc # "kpi") => (pc = "balance" /\ i' = i)
        /\ (pc' = "test" /\ pc # "test") => (pc = "kpi" /\ i' = i)
        /\ (i' # i) =>
              /\ i' = i + 1
              /\ \A k \in 1..i :
                    \E n \in 1..Len(log') :
                        log'[n].test = k /\ log'[n].event \notin ProgressEvents
        /\ \A n \in 1..Len(log') : log'[n].test <= i
      ]_vars

C27_Witness ==
    /\ pc = "done"
    /\ Len(tests) = 2
    /\ Covariates(tests[1]) # <<>>
    /\ Recorded(1)
    /\ Recorded(2)
    /\ Len(results) = 2

\* the sample is the claims of the rows of the group with claims > 0, in row order
ClaimsOfClaimRows(data, frame) ==
    /\ Len(data) = RowsWithClaim(frame)
    /\ \A j \in 1..Len(data) : data[j] > 0
    /\ \A j \in 1..Len(data) :
          \E k \in 1..Len(frame.rows) :
             /\ frame.rows[k].v["TotalClaims"] = data[j]
             /\ Cardinality({n \in 1..k : frame.rows[n].v["TotalClaims"] > 0}) = j

\* a severity test by ttest or mann_whitney_u on groups that have the claims column
SeverityTestCalled ==
    /\ pc = "called"
    /\ Arg.kpi = "severity"
    /\ Arg.test \in {"ttest", "mw_u"}
    /\ "TotalClaims" \in df.columns

\* C28: for the severity KPI, ttest and mann_whitney_u hand scipy only the
\* claims of the rows with claims > 0 of each group; when a group has no such
\* row the result is (NaN, NaN) and scipy is not called; the 30-row gate counts
\* all the rows of a group, so two groups of 30 rows are tested however few of
\* their rows hold a claim.
C28_SeverityUsesClaimRowsOnly ==
    SeverityTestCalled =>
        IF Len(df_a.rows) < 30 \/ Len(df_b.rows) < 30
        THEN ret.statistic = NaN /\ ret.p_value = NaN /\ ret.scipy = "none"
        ELSE IF RowsWithClaim(df_a) = 0 \/ RowsWithClaim(df_b) = 0
        THEN ret.statistic = NaN /\ ret.p_value = NaN /\ ret.scipy = "none"
        ELSE /\ ret.scipy = ScipyOf(Arg.test)
             /\ ClaimsOfClaimRows(ret.data_a, df_a)
             /\ ClaimsOfClaimRows(ret.data_b, df_b)

C28_Witness ==
    /\ SeverityTestCalled
    /\ Arg.test = "mw_u"
    /\ Len(df_a.rows) = 30
    /\ Len(df_b.rows) = 30
    /\ ret.scipy = "mannwhitneyu"
    /\ Len(ret.data_a) \in 1..29
    /\ Len(ret.data_b) \in 1..29
    /\ ret.statistic # NaN

\* the lines the step added to the log
NewLines == SubSeq(log', Len(log) + 1, Len(log'))

\* the step logged a covariate as unbalanced (p < 0.05)
UnbalancedLogged ==
    \E n \in 1..Len(NewLines) : NewLines[n].event = "covariate_unbalanced"

\* C29: the conservative imbalance policy of run_tests: when the balance check
\* of a spec finds a covariate unbalanced (p < 0.05) the spec is skipped,
\* run_test is not invoked and no result is recorded for it; a spec whose
\* covariates are absent or an empty list goes to the test with no balance check.
C29_ImbalancedSpecSkipped ==
    [][ /\ pc = "balance" =>
              IF Covariates(tests[i]) = <<>>
              THEN /\ pc' = "kpi"
                   /\ log' = log
                   /\ i' = i
              ELSE UnbalancedLogged =>
                      /\ pc' = "loop"
                      /\ i' = i + 1
                      /\ results' = results
                      /\ NewLines[Len(NewLines)].event = "imbalance_detected"
                      /\ NewLines[Len(NewLines)].test = i
        /\ pc # "balance" => ~UnbalancedLogged
        /\ \A k \in 1..Len(tests) :
              (\E n \in 1..Len(log') :
                  log'[n].test = k /\ log'[n].event = "imbalance_detected")
              => /\ \A n \in 1..Len(log') :
                       (log'[n].test = k /\ log'[n].level = "info") =>
                           log'[n].event = "running_test"
                 /\ \A n \in 1..Len(results') :
                       results'[n].name = tests[k].name =>
                          \E j \in 1..Len(tests) :
                             j # k /\ tests[j].name = tests[k].name
      ]_vars

C29_Witness ==
    /\ pc = "done"
    /\ Len(tests) = 2
    /\ Logged(1, {"imbalance_detected"})
    /\ \E n \in 1..Len(log) : log[n].event = "covariate_unbalanced"
    /\ ~Has(tests[2], "covariates")
    /\ Recorded(2)
    /\ Len(results) = 1
    /\ results[1].name = tests[2].name

\* the loaded record set lacks the claims or the premium column
LacksRequiredColumn == "TotalClaims" \notin df.columns \/ "TotalPremium" \notin df.columns

\* the balance step of a spec with covariates ended with an empty report: no
\* covariate was tested, each was logged as missing or as short of categories
EmptyReportLogged ==
    /\ pc = "balance"
    /\ Covariates(tests[i]) # <<>>
    /\ \A n \in 1..Len(NewLines) :
          NewLines[n].test = 0 =>
              NewLines[n].event \in {"covariate_missing", "insufficient_categories"}

\* C30: on a record set without the TotalClaims or the TotalPremium column
\* run_tests returns the empty list and segments or tests no spec; and a spec
\* with covariates whose balance report has no row is skipped with no result.
C30_MissingColumnsAndEmptyReport ==
    [][ /\ LacksRequiredColumn =>
              /\ results' = <<>>
              /\ pc' \in {"returned", "done"}
              /\ df_a' = NoFrame
              /\ df_b' = NoFrame
              /\ i' = 0
              /\ \A n \in 1..Len(log') : log'[n].event = "missing_required_columns"
              /\ pc' = "done" => (summary'.written /\ summary'.rows = <<>>)
        /\ EmptyReportLogged =>
              /\ pc' = "loop"
              /\ i' = i + 1
              /\ results' = results
              /\ NewLines[Len(NewLines)].event = "balance_check_failed"
              /\ NewLines[Len(NewLines)].test = i
      ]_vars

C30_Witness ==
    /\ pc = "done"
    /\ ~LacksRequiredColumn
    /\ Len(tests) = 2
    /\ Covariates(tests[1]) # <<>>
    /\ Logged(1, {"balance_check_failed"})
    /\ \E n \in 1..Len(log) : log[n].event = "insufficient_categories"
    /\ Recorded(2)
    /\ Len(results) = 1

====
